---- MODULE Spec2Model ----
(***************************************************************************)
(* EatBot: the reservation repository (services/repositories.py) and the   *)
(* booking service's card-action state machine (services/booking.py),      *)
(* modelled over an abstract remote record store.                          *)
(*                                                                         *)
(* The remote meal_record table is a sequence of rows in store order.  A    *)
(* row is [id, date, user, meal, price, status].  Record ids are handed    *)
(* out by the store on create_record; update_record on an id that no row   *)
(* carries fails with FeishuApiError.                                      *)
(***************************************************************************)
EXTENDS Integers, Sequences, FiniteSets, TLC

\* ------------------------------------------------------------------ bounds
\* Largest number of rows the meal_record table holds in the model.
MaxRows == 2
\* Last tick of the clock (6 is the first tick of day 2).
MaxNow == 6
\* The days decide is asked about run from day 1 (a Friday) to MaxDay.
MaxDay == 8
\* The longest rule list handed to decide.
MaxRules == 2

\* ------------------------------------------------------- program constants
\* Python None for a record id (record_id: str | None = None).
NoId == 0
\* Decimal("0"), the price cancel_meal_record puts in its payloads.
ZeroPrice == 0
\* make_user / roster unit prices.
LunchPrice == 20
DinnerPrice == 25

\* What _parse_iso_date makes of a malformed target_date (None).
BadDate == 0
\* schedule.lunch_cutoff and schedule.dinner_cutoff, as ticks of the day.
LunchCutoff == 1
DinnerCutoff == 2
\* schedule.schedule_cache_ttl_minutes, in ticks.
CacheTtl == 1
\* Ticks per day: the dinner cutoff is the last tick of a day.
DayLen == DinnerCutoff + 1
\* The clock starts at the last tick of day 0, the eve of day 1.
StartNow == DayLen - 1

\* Python None for an open_id or a meal type.
None == "None"

\* The value of a local variable assigned once: Only({e(x) : x \in {v}}) is
\* e with x bound to the value of v.
Only(S) == CHOOSE x \in S : TRUE

\* Meal (StrEnum): the two reservable values, and the historical marker.
LUNCH == "LUNCH"
DINNER == "DINNER"
CANCELLED == "CANCELLED"
Meals == {LUNCH, DINNER}

Users == {"ou_1", "ou_2"}
Dates == {1, 2}
\* The unit price of a meal (UserProfile.lunch_price / dinner_price).
PriceOf(meal) == IF meal = LUNCH THEN LunchPrice ELSE DinnerPrice

\* The key the modelled repository calls are made for; rows of the other
\* date and the other user are in the table as well.
CallDates == {1}
CallUsers == {"ou_1"}

\* An id that no row of the table carries (a stale cached identifier).
StaleId == MaxRows + 1

FieldNames == {"date", "user", "meal", "price", "status"}

VARIABLES
    store,   \* the remote meal_record table, in store order
    last,    \* the last repository call: arguments, mode taken and result
    rules,   \* the remote meal_schedule table (list_schedule_rules)
    now,     \* the clock _now() reads, in ticks
    cache,   \* _schedule_rules_cache and _schedule_rules_cache_expires_at
    act,     \* the last card action handled: the request as received
    resp,    \* its response: toast level and content, card, changed meals
    calls,   \* the repository calls it made, in order
    plan,    \* the DailyMealPlan last decided: its date and meals
    outbox   \* the cards the daily job sent, in order

vars == <<store, last, rules, now, cache, act, resp, calls, plan, outbox>>
svcVars == <<rules, now, cache, act, resp, calls, plan, outbox>>

\* ------------------------------------------------------------ conversions
\* _to_meal: the raw cell value to a Meal, None when it is neither meal.
_to_meal(value) ==
    IF value = LUNCH THEN LUNCH
    ELSE IF value = DINNER THEN DINNER
    ELSE None

\* ------------------------------------------------------ the record store
RecordIds(s) == {s[i].id : i \in 1 .. Len(s)}

\* BitableAdapter.update_record: only the fields of the payload are
\* written; the caller checks RecordIds first (FeishuApiError otherwise).
update_record(s, record_id, fields) ==
    [i \in 1 .. Len(s) |->
        IF s[i].id = record_id
        THEN [id     |-> s[i].id,
              date   |-> IF "date" \in fields.keys THEN fields.vals.date ELSE s[i].date,
              user   |-> IF "user" \in fields.keys THEN fields.vals.user ELSE s[i].user,
              meal   |-> IF "meal" \in fields.keys THEN fields.vals.meal ELSE s[i].meal,
              price  |-> IF "price" \in fields.keys THEN fields.vals.price ELSE s[i].price,
              status |-> IF "status" \in fields.keys THEN fields.vals.status ELSE s[i].status]
        ELSE s[i]]

\* The id the store gives the next created record.
NewId(s) == Len(s) + 1

\* BitableAdapter.create_record: the new row goes last in store order.
create_record(s, fields) ==
    Append(s, [id     |-> NewId(s),
               date   |-> fields.vals.date,
               user   |-> fields.vals.user,
               meal   |-> fields.vals.meal,
               price  |-> fields.vals.price,
               status |-> fields.vals.status])

\* ------------------------------------------------------------- payloads
\* _meal_payload: every field of the row.
_meal_payload(target_date, open_id, meal, price, reservation_status) ==
    [keys |-> FieldNames,
     vals |-> [date |-> target_date, user |-> open_id, meal |-> meal,
               price |-> price, status |-> reservation_status]]

\* _meal_update_payload: only the arguments that are not None (meal may
\* be None; both callers pass a price and a status).
_meal_update_payload(meal, price, reservation_status) ==
    [keys |-> (IF meal # None THEN {"meal"} ELSE {}) \cup {"price", "status"},
     vals |-> [date |-> 0, user |-> None, meal |-> meal,
               price |-> price, status |-> reservation_status]]

\* ---------------------------------------------------------- _list_meal_rows
MealRecordRow(r) ==
    [record_id |-> r.id, target_date |-> r.date, open_id |-> r.user,
     meal_type |-> _to_meal(r.meal), reservation_status |-> r.status]

RECURSIVE ListFold(_, _, _, _, _)
ListFold(s, i, target_date, open_id, rows_by_key) ==
    IF i > Len(s) THEN rows_by_key
    ELSE IF s[i].date # target_date
         THEN ListFold(s, i + 1, target_date, open_id, rows_by_key)
    ELSE IF open_id # None /\ s[i].user # open_id
         THEN ListFold(s, i + 1, target_date, open_id, rows_by_key)
    ELSE LET row == MealRecordRow(s[i])
             popped == SelectSeq(rows_by_key,
                          LAMBDA x : ~(x.open_id = row.open_id /\ x.meal_type = row.meal_type))
         IN ListFold(s, i + 1, target_date, open_id, Append(popped, row))

\* A listing that keeps every row of the date and user, duplicates included.
ListMealRowsNoDedup(s, target_date, open_id) ==
    LET kept == SelectSeq(s, LAMBDA r : r.date = target_date
                                        /\ (open_id = None \/ r.user = open_id))
    IN  [i \in 1 .. Len(kept) |-> MealRecordRow(kept[i])]

\* _list_meal_rows: the rows of the date (and user), one per (user, meal),
\* a later record replacing an earlier one of the same key.
_list_meal_rows(s, target_date, open_id) ==
    ListFold(s, 1, target_date, open_id, <<>>)

list_user_meal_rows(s, target_date, open_id) ==
    _list_meal_rows(s, target_date, open_id)

\* A count of every reserved row of the date and meal, duplicates included.
CountEveryReservedRow(s, target_date, meal) ==
    Cardinality({i \in 1 .. Len(s) :
                    s[i].date = target_date /\ _to_meal(s[i].meal) = meal /\ s[i].status})

\* count_meal_records: the listed rows of the date, of every user, that
\* carry the meal and are reserved.
count_meal_records(s, target_date, meal) ==
    Len(SelectSeq(_list_meal_rows(s, target_date, None),
                  LAMBDA row : row.meal_type = meal /\ row.reservation_status))

\* next((row for row in rows if row.meal_type == meal), None): index or 0.
FirstWithMeal(rows, meal) ==
    IF \E i \in 1 .. Len(rows) : rows[i].meal_type = meal
    THEN CHOOSE i \in 1 .. Len(rows) :
            /\ rows[i].meal_type = meal
            /\ \A j \in 1 .. (i - 1) : rows[j].meal_type # meal
    ELSE 0

\* next((row for row in rows if row.record_id == record_id), None).
FirstWithId(rows, record_id) ==
    IF \E i \in 1 .. Len(rows) : rows[i].record_id = record_id
    THEN CHOOSE i \in 1 .. Len(rows) :
            /\ rows[i].record_id = record_id
            /\ \A j \in 1 .. (i - 1) : rows[j].record_id # record_id
    ELSE 0

\* ------------------------------------------------------ upsert_meal_record
\* The outcome of a repository call: the table after it, the id returned
\* (NoId for None) and the branch taken; mode "raised" is a FeishuApiError
\* that the call lets propagate.
Result(s, ret, mode) == [store |-> s, ret |-> ret, mode |-> mode]

\* An upsert whose scan never looks for the key's row and always creates.
UpsertAlwaysCreate(s, target_date, open_id, meal, price, record_id, prefer_direct) ==
    LET payload == _meal_payload(target_date, open_id, meal, price, TRUE)
        update_payload == _meal_update_payload(meal, price, TRUE)
    IN  IF record_id # NoId /\ record_id \in RecordIds(s)
        THEN Result(update_record(s, record_id,
                                  IF prefer_direct THEN update_payload ELSE payload),
                    record_id, IF prefer_direct THEN "direct_update" ELSE "update_by_hint")
        ELSE Result(create_record(s, payload), NewId(s),
                    IF prefer_direct THEN "direct_create" ELSE "scan_create")

\* An upsert that, in prefer_direct mode too, falls back to the scan.
UpsertDirectScans(s, target_date, open_id, meal, price, record_id, prefer_direct) ==
    LET payload == _meal_payload(target_date, open_id, meal, price, TRUE)
        rows == _list_meal_rows(s, target_date, open_id)
        match == FirstWithMeal(rows, meal)
    IN  IF record_id # NoId /\ record_id \in RecordIds(s)
        THEN Result(update_record(s, record_id, payload), record_id, "update_by_hint")
        ELSE IF match # 0
        THEN Result(update_record(s, rows[match].record_id, payload),
                    rows[match].record_id, "scan_update")
        ELSE Result(create_record(s, payload), NewId(s), "scan_create")

upsert_meal_record(s, target_date, open_id, meal, price, record_id, prefer_direct) ==
    LET payload == _meal_payload(target_date, open_id, meal, price, TRUE)
        update_payload == _meal_update_payload(meal, price, TRUE)
        rows == _list_meal_rows(s, target_date, open_id)
        match == FirstWithMeal(rows, meal)
    IN  IF prefer_direct
        THEN IF record_id # NoId /\ record_id \in RecordIds(s)
             THEN Result(update_record(s, record_id, update_payload), record_id, "direct_update")
             ELSE Result(create_record(s, payload), NewId(s), "direct_create")
        ELSE IF record_id # NoId /\ record_id \in RecordIds(s)
             THEN Result(update_record(s, record_id, payload), record_id, "update_by_hint")
        ELSE IF match # 0
             THEN Result(update_record(s, rows[match].record_id, payload),
                         rows[match].record_id, "scan_update")
        ELSE Result(create_record(s, payload), NewId(s), "scan_create")

\* ------------------------------------------------------ cancel_meal_record
\* A cancel that never scans: without a usable hint it gives up.
CancelNeverScans(s, target_date, open_id, meal, record_id, prefer_direct) ==
    IF record_id = NoId
    THEN Result(s, NoId, "direct_skip")
    ELSE IF record_id \in RecordIds(s)
    THEN Result(update_record(s, record_id, _meal_update_payload(None, ZeroPrice, FALSE)),
                record_id, "direct_update")
    ELSE Result(s, NoId, "direct_failed")

cancel_meal_record(s, target_date, open_id, meal, record_id, prefer_direct) ==
    LET rows == _list_meal_rows(s, target_date, open_id)
        byMeal == FirstWithMeal(rows, meal)
        match == IF byMeal = 0 /\ record_id # NoId THEN FirstWithId(rows, record_id) ELSE byMeal
        payload == _meal_payload(target_date, open_id, meal, ZeroPrice, FALSE)
        target_record_id == IF record_id # NoId THEN record_id ELSE rows[match].record_id
    IN  IF prefer_direct
        THEN IF record_id = NoId
             THEN Result(s, NoId, "direct_skip")
             ELSE IF record_id \in RecordIds(s)
             THEN Result(update_record(s, record_id,
                                       _meal_update_payload(None, ZeroPrice, FALSE)),
                         record_id, "direct_update")
             ELSE Result(s, NoId, "direct_failed")
        ELSE IF match = 0
             THEN IF record_id = NoId
                  THEN Result(s, NoId, "scan_skip")
                  ELSE IF record_id \in RecordIds(s)
                  THEN Result(update_record(s, record_id, payload), record_id,
                              "scan_fallback_update")
                  ELSE Result(s, NoId, "scan_fallback_failed")
        ELSE IF target_record_id \in RecordIds(s)
             THEN Result(update_record(s, target_record_id, payload), target_record_id,
                         "scan_update")
        ELSE Result(s, NoId, "raised")

\* ------------------------------------------------------------------ state
\* The rows of the table that belong to a date and user.
KeyRowsOf(s, d, u) == {i \in 1 .. Len(s) : s[i].date = d /\ s[i].user = u}

\* The record id hints a caller can hold for a date and user: none, a stale
\* one, or the id of any row of that date and user (the ids a card carries
\* come from list_user_meal_rows of that date and user).
Hints(s, d, u) == {NoId, StaleId} \cup {s[i].id : i \in KeyRowsOf(s, d, u)}

\* The effective (last in store order) row of a key, as the repository
\* reads it: its record id, NoId when the key has no row.
EffectiveId(s, d, u, m) ==
    LET rows == list_user_meal_rows(s, d, u)
        k == FirstWithMeal(rows, m)
    IN  IF k = 0 THEN NoId ELSE rows[k].record_id

\* The key's effective row exists and is reserved.
EffectiveReserved(s, d, u, m) ==
    LET rows == list_user_meal_rows(s, d, u)
        k == FirstWithMeal(rows, m)
    IN  k # 0 /\ rows[k].reservation_status

\* A hint that is absent, stale, or the id of the key's effective row.
HintOk(s, d, u, m, hint) ==
    hint \in {NoId, StaleId} \/ hint = EffectiveId(s, d, u, m)

NoCall == [op |-> "none", date |-> 0, user |-> None, meal |-> None, price |-> 0,
           hint |-> NoId, direct |-> FALSE, ret |-> NoId, mode |-> "none",
           rows |-> <<>>, again |-> FALSE, grew |-> FALSE, wrote |-> FALSE,
           hintOk |-> FALSE, prevHintOk |-> FALSE, hintIsEff |-> FALSE,
           wasReserved |-> FALSE]

\* ---------------------------------------------------------- time and rules
\* One day is DayLen ticks; a time of day is a tick within the day.
TodayOf(t) == t \div DayLen
TimeOf(t) == t % DayLen

\* date.weekday(): 0 is Monday; day 1 of the model is a Friday.
weekday(d) == (d + 3) % 7

\* The meal_schedule tables of the model: no rule at all (day 1, a Friday,
\* then offers both meals), or one rule that offers lunch only on day 1.
RuleTables == {<<>>, <<[start_date |-> 1, end_date |-> 1, meals |-> {LUNCH}]>>}

\* BitableRepository.list_schedule_rules: rows whose end is before their
\* start are dropped.
list_schedule_rules(table) ==
    SelectSeq(table, LAMBDA r : ~(r.end_date < r.start_date))

\* DailyMealPlan: the date decided and the meals offered on it.
DailyMealPlan(target_date, meals) == [date |-> target_date, meals |-> meals]
NoPlan == DailyMealPlan(BadDate, {})

\* The loop of decide over the matched rules: each rule's meals, filtered
\* to lunch and dinner, replace the meals kept so far.
RECURSIVE EffectiveMeals(_, _, _)
EffectiveMeals(matched_rules, i, effective_meals) ==
    IF i > Len(matched_rules) THEN effective_meals
    ELSE EffectiveMeals(matched_rules, i + 1,
                        {meal \in matched_rules[i].meals : meal \in {LUNCH, DINNER}})

\* A decide that offers every meal some matching rule offers.
DecideUnion(target_date, rs) ==
    LET matched_rules ==
            SelectSeq(rs, LAMBDA r : r.start_date <= target_date /\ target_date <= r.end_date)
    IN  IF Len(matched_rules) > 0
        THEN UNION {matched_rules[i].meals \cap {LUNCH, DINNER} : i \in 1 .. Len(matched_rules)}
        ELSE IF weekday(target_date) >= 5 THEN {}
        ELSE {LUNCH, DINNER}

\* A decide for which only the Sunday is a weekend.
DecideSaturdayWorks(target_date, rs) ==
    LET matched_rules ==
            SelectSeq(rs, LAMBDA r : r.start_date <= target_date /\ target_date <= r.end_date)
    IN  IF Len(matched_rules) > 0
        THEN EffectiveMeals(matched_rules, 1, {})
        ELSE IF weekday(target_date) >= 6 THEN {}
        ELSE {LUNCH, DINNER}

\* MealPlanDecider.decide: the matching rules are applied in list order,
\* each overwriting the meals; without a matching rule, weekends offer
\* nothing and weekdays both meals.
decide(target_date, rs) ==
    LET matched_rules ==
            SelectSeq(rs, LAMBDA r : r.start_date <= target_date /\ target_date <= r.end_date)
    IN  IF Len(matched_rules) > 0
        THEN EffectiveMeals(matched_rules, 1, {})
        ELSE IF weekday(target_date) >= 5 THEN {}
        ELSE {LUNCH, DINNER}

NoCache == [set |-> FALSE, rules |-> <<>>, expires_at |-> 0]

\* A lookup for which a cache is still good at its expiry.
ListRulesGoodAtExpiry(c, t, table, force_refresh) ==
    LET cache_available == c.set /\ t <= c.expires_at
        fetched == list_schedule_rules(table)
    IN  IF force_refresh \/ ~cache_available
        THEN [rules |-> fetched, fetched |-> TRUE,
              cache |-> [set |-> TRUE, rules |-> fetched, expires_at |-> t + CacheTtl]]
        ELSE [rules |-> c.rules, fetched |-> FALSE, cache |-> c]

\* BookingService._list_schedule_rules: the cached rules while the cache is
\* set and not expired, else a fetch that refills the cache.
_list_schedule_rules(c, t, table, force_refresh) ==
    LET cache_available == c.set /\ t < c.expires_at
        fetched == list_schedule_rules(table)
    IN  IF force_refresh \/ ~cache_available
        THEN [rules |-> fetched, fetched |-> TRUE,
              cache |-> [set |-> TRUE, rules |-> fetched, expires_at |-> t + CacheTtl]]
        ELSE [rules |-> c.rules, fetched |-> FALSE, cache |-> c]

\* An _is_editable that still accepts at the cutoff itself.
IsEditableInclusive(t, target_date, meal) ==
    IF target_date > TodayOf(t) THEN TRUE
    ELSE IF target_date < TodayOf(t) THEN FALSE
    ELSE IF meal = LUNCH THEN TimeOf(t) <= LunchCutoff
    ELSE IF meal = DINNER THEN TimeOf(t) <= DinnerCutoff
    ELSE FALSE

\* BookingService._is_editable.
_is_editable(t, target_date, meal) ==
    IF target_date > TodayOf(t) THEN TRUE
    ELSE IF target_date < TodayOf(t) THEN FALSE
    ELSE IF meal = LUNCH THEN TimeOf(t) < LunchCutoff
    ELSE IF meal = DINNER THEN TimeOf(t) < DinnerCutoff
    ELSE FALSE

\* ----------------------------------------------------------------- roster
\* list_user_profiles: the user_config table holds one enabled user.
list_user_profiles ==
    <<[open_id |-> "ou_1", enabled |-> TRUE, lunch_price |-> LunchPrice,
       dinner_price |-> DinnerPrice, meal_preferences |-> {LUNCH}]>>

\* BookingService._load_user: index of the profile in the roster, 0 for None.
_load_user(open_id) ==
    IF \E i \in 1 .. Len(list_user_profiles) : list_user_profiles[i].open_id = open_id
    THEN CHOOSE i \in 1 .. Len(list_user_profiles) :
            /\ list_user_profiles[i].open_id = open_id
            /\ \A j \in 1 .. (i - 1) : list_user_profiles[j].open_id # open_id
    ELSE 0

_build_meal_prices(user, allowed_meals) ==
    [m \in allowed_meals |-> IF m = LUNCH THEN user.lunch_price ELSE user.dinner_price]

\* ------------------------------------------------------- card action parts
ReadCall(op) == [op |-> op, meal |-> None, record_id |-> NoId, mode |-> "read"]
WriteCall(op, meal, record_id, mode) ==
    [op |-> op, meal |-> meal, record_id |-> record_id, mode |-> mode]

\* The order in which a Python set of meals is iterated.
Orders == {<<LUNCH, DINNER>>, <<DINNER, LUNCH>>}
InOrder(order, meal_set) == SelectSeq(order, LAMBDA m : m \in meal_set)

\* What a card action meets outside its request: the order in which a
\* Python set of meals is iterated, and whether the remote store rejects
\* this action's update_record calls (FeishuApiError).
Envs == [order : Orders, fails : BOOLEAN]
\* The record id as update_record meets it: an update the store rejects
\* fails like one of an id that no row carries.
Hinted(record_id, fails) == IF fails /\ record_id # NoId THEN StaleId ELSE record_id

\* _pick_rows_by_meal: the last row of the meal, as an index into rows (0: none).
PickRow(rows, meal) ==
    IF \E i \in 1 .. Len(rows) : rows[i].meal_type = meal
    THEN CHOOSE i \in 1 .. Len(rows) :
            /\ rows[i].meal_type = meal
            /\ \A j \in (i + 1) .. Len(rows) : rows[j].meal_type # meal
    ELSE 0

\* _parse_meal: the toggle value of the payload.
_parse_meal(value) ==
    IF value = LUNCH THEN LUNCH ELSE IF value = DINNER THEN DINNER ELSE None

\* _resolve_selected_from_rows.
_resolve_selected_from_rows(rows, allowed_meals) ==
    [selected |-> {m \in allowed_meals :
                      PickRow(rows, m) # 0 /\ rows[PickRow(rows, m)].reservation_status},
     meal_record_ids |-> [m \in allowed_meals |->
                      IF PickRow(rows, m) = 0 THEN NoId ELSE rows[PickRow(rows, m)].record_id]]

RECURSIVE SyncFold(_, _, _, _, _, _, _)
SyncFold(ms, s, target_date, open_id, rows, cs, fails) ==
    IF ms = <<>> THEN [store |-> s, calls |-> cs]
    ELSE LET meal == Head(ms)
             k == PickRow(rows, meal)
         IN  IF k = 0 \/ ~rows[k].reservation_status
             THEN SyncFold(Tail(ms), s, target_date, open_id, rows, cs, fails)
             ELSE Only({SyncFold(Tail(ms), res.store, target_date, open_id, rows,
                                 Append(cs, WriteCall("cancel_meal_record", meal,
                                                      rows[k].record_id, res.mode)),
                                 fails) :
                        res \in {cancel_meal_record(s, target_date, open_id, meal,
                                                    Hinted(rows[k].record_id, fails),
                                                    TRUE)}})

\* A sync that cancels the reserved rows of every meal.
SyncEveryMeal(s, target_date, open_id, allowed_meals, rows, env) ==
    Only({IF f.calls = <<>>
          THEN [store |-> s, rows |-> rows, calls |-> <<>>]
          ELSE [store |-> f.store,
                rows |-> list_user_meal_rows(f.store, target_date, open_id),
                calls |-> Append(f.calls, ReadCall("list_user_meal_rows"))] :
          f \in {SyncFold(InOrder(env.order, Meals), s, target_date, open_id, rows, <<>>, env.fails)}})

\* _sync_disallowed_meal_rows: cancel the reserved rows of meals that are
\* not allowed, then read the rows again.
_sync_disallowed_meal_rows(s, target_date, open_id, allowed_meals, rows, env) ==
    LET disallowed_meals == Meals \ allowed_meals
    IN  Only({IF disallowed_meals = {} \/ f.calls = <<>>
              THEN [store |-> s, rows |-> rows, calls |-> <<>>]
              ELSE [store |-> f.store,
                    rows |-> list_user_meal_rows(f.store, target_date, open_id),
                    calls |-> Append(f.calls, ReadCall("list_user_meal_rows"))] :
              f \in {SyncFold(InOrder(env.order, disallowed_meals), s, target_date,
                              open_id, rows, <<>>, env.fails)}})

\* The first changed meal, in iteration order, that is not editable.
FirstNotEditable(ms, t, target_date) ==
    IF \E i \in 1 .. Len(ms) : ~_is_editable(t, target_date, ms[i])
    THEN ms[CHOOSE i \in 1 .. Len(ms) :
                /\ ~_is_editable(t, target_date, ms[i])
                /\ \A j \in 1 .. (i - 1) : _is_editable(t, target_date, ms[j])]
    ELSE None

RECURSIVE ApplyFold(_, _, _, _, _, _, _, _, _)
ApplyFold(ms, s, target_date, open_id, selected, meal_prices, ids, cs, fails) ==
    IF ms = <<>> THEN [store |-> s, ids |-> ids, calls |-> cs]
    ELSE LET meal == Head(ms)
             record_id == ids[meal]
         IN  IF meal \in selected
             THEN Only({ApplyFold(Tail(ms), res.store, target_date, open_id, selected,
                                  meal_prices, [ids EXCEPT ![meal] = res.ret],
                                  Append(cs, WriteCall("upsert_meal_record", meal,
                                                       record_id, res.mode)), fails) :
                        res \in {upsert_meal_record(s, target_date, open_id, meal,
                                                    meal_prices[meal],
                                                    Hinted(record_id, fails), TRUE)}})
             ELSE Only({ApplyFold(Tail(ms), res.store, target_date, open_id, selected,
                                  meal_prices,
                                  IF res.ret # NoId THEN [ids EXCEPT ![meal] = res.ret]
                                  ELSE ids,
                                  Append(cs, WriteCall("cancel_meal_record", meal,
                                                       record_id, res.mode)), fails) :
                        res \in {cancel_meal_record(s, target_date, open_id, meal,
                                                    Hinted(record_id, fails), TRUE)}})

\* An _apply_selection that checks each meal's cutoff right before writing
\* it: the meals iterated before the first non-editable one are written.
ApplySelectionInterleaved(s, t, target_date, open_id, changed_meals, selected, meal_prices, ids, env) ==
    LET ms == InOrder(env.order, changed_meals)
        bad == FirstNotEditable(ms, t, target_date)
        k == IF bad = None THEN Len(ms) + 1
             ELSE CHOOSE i \in 1 .. Len(ms) : ms[i] = bad
    IN  Only({[raised |-> bad # None, meal |-> bad, store |-> f.store, ids |-> f.ids,
               calls |-> f.calls] :
              f \in {ApplyFold(SubSeq(ms, 1, k - 1), s, target_date, open_id, selected,
                               meal_prices, ids, <<>>, env.fails)}})

\* An _apply_selection that writes the changed meals and only then checks
\* their cutoffs.
ApplySelectionWritesFirst(s, t, target_date, open_id, changed_meals, selected, meal_prices, ids, env) ==
    LET ms == InOrder(env.order, changed_meals)
        bad == FirstNotEditable(ms, t, target_date)
    IN  Only({[raised |-> bad # None, meal |-> bad, store |-> f.store, ids |-> f.ids,
               calls |-> f.calls] :
              f \in {ApplyFold(ms, s, target_date, open_id, selected, meal_prices,
                               ids, <<>>, env.fails)}})

\* _apply_selection: every changed meal is checked against its cutoff
\* before the first write; meal_prices holds a price for every allowed
\* meal, so the missing-price error cannot arise.
_apply_selection(s, t, target_date, open_id, changed_meals, selected, meal_prices, ids, env) ==
    LET ms == InOrder(env.order, changed_meals)
        bad == FirstNotEditable(ms, t, target_date)
    IN  IF bad # None
        THEN [raised |-> TRUE, meal |-> bad, store |-> s, ids |-> ids, calls |-> <<>>]
        ELSE Only({[raised |-> FALSE, meal |-> None, store |-> f.store, ids |-> f.ids,
                    calls |-> f.calls] :
                   f \in {ApplyFold(ms, s, target_date, open_id, selected, meal_prices,
                                    ids, <<>>, env.fails)}})

\* ------------------------------------------------------------- responses
MsgOwnerOnly == "only the card owner may submit"
MsgBadDate == "invalid date parameter"
MsgNotInRoster == "not in the diner roster"
MsgBadToggle == "unsupported meal operation"
MsgNotBookable == "meal not bookable now, latest state synced"
MsgRefreshed == "latest reservation state refreshed"
MsgBadAction == "unsupported card operation"
MsgUpdated == "reservation updated"
MsgCutoff == "meal is past its cutoff"

NoIds == [m \in {} |-> NoId]
NoCard == [has |-> FALSE, allowed |-> {}, selected |-> {}, ids |-> NoIds]

\* ReservationCardBuilder.build_payload: one button per allowed meal, shown
\* selected for the meals of selected_meals & allowed_meals, each carrying
\* the record ids.  booking.py also passes lunch_cutoff and dinner_cutoff,
\* keywords the builder in domain/cards.py does not declare; the card is
\* modelled from the arguments both sides name.
build_payload(allowed_meals, selected_meals, meal_record_ids) ==
    [has |-> TRUE, allowed |-> allowed_meals,
     selected |-> selected_meals \cap allowed_meals, ids |-> meal_record_ids]

Out(s, c, level, content, meal, card, cs, changed) ==
    [store |-> s, cache |-> c, level |-> level, content |-> content, meal |-> meal,
     card |-> card, calls |-> cs, changed |-> changed]

\* _process_action from the toggle parse on: the rows are synced and
\* resolved; the action is dispatched and the selection applied.
ProcessResolved(t, req, env, lookup, allowed, sync, resolved) ==
    LET user == list_user_profiles[_load_user(req.operator)]
        meal_prices == _build_meal_prices(user, allowed)
        selected_before == resolved.selected
        toggle == _parse_meal(req.toggle_meal)
        cs0 == <<ReadCall("list_user_profiles")>>
               \o (IF lookup.fetched THEN <<ReadCall("list_schedule_rules")>> ELSE <<>>)
               \o <<ReadCall("list_user_meal_rows")>> \o sync.calls
        selected ==
            IF req.action = "toggle_meal"
            THEN IF toggle \in selected_before
                 THEN selected_before \ {toggle} ELSE selected_before \cup {toggle}
            ELSE IF req.meals # {} THEN req.meals \cap allowed
            ELSE selected_before
        changed_meals == {m \in allowed : (m \in selected_before) # (m \in (selected \cap allowed))}
    IN  IF req.action = "toggle_meal" /\ toggle = None
        THEN Out(sync.store, lookup.cache, "error", MsgBadToggle, None, NoCard, cs0, {})
        ELSE IF req.action = "toggle_meal" /\ toggle \notin allowed
        THEN Out(sync.store, lookup.cache, "info", MsgNotBookable, toggle,
                 build_payload(allowed, selected_before, resolved.meal_record_ids), cs0, {})
        ELSE IF req.action = "refresh_state"
        THEN Out(sync.store, lookup.cache, "info", MsgRefreshed, None,
                 build_payload(allowed, selected_before, resolved.meal_record_ids), cs0, {})
        ELSE IF req.action \notin {"toggle_meal", "submit_reservation"}
        THEN Out(sync.store, lookup.cache, "error", MsgBadAction, None, NoCard, cs0, {})
        ELSE Only({IF applied.raised
                   THEN Out(applied.store, lookup.cache, "error", MsgCutoff, applied.meal,
                            NoCard, cs0 \o applied.calls, changed_meals)
                   ELSE Out(applied.store, lookup.cache, "info", MsgUpdated, None,
                            build_payload(allowed, selected \cap allowed, applied.ids),
                            cs0 \o applied.calls, changed_meals) :
                   applied \in {_apply_selection(sync.store, t, req.target_date,
                                                 req.operator, changed_meals,
                                                 selected \cap allowed, meal_prices,
                                                 resolved.meal_record_ids, env)}})

\* A handler that cancels the rows of meals not allowed but then accepts
\* a toggle or a submit of any meal.
ProcessAllowedAnyMeal(s, t, req, env, lookup, allowed) ==
    Only({Only({ProcessResolved(t, req, env, lookup, Meals, sync, resolved) :
                resolved \in {_resolve_selected_from_rows(sync.rows, Meals)}}) :
          sync \in {_sync_disallowed_meal_rows(
                        s, req.target_date, req.operator, allowed,
                        list_user_meal_rows(s, req.target_date, req.operator), env)}})

\* A handler that takes the record ids of the meals from the card payload
\* instead of the rows it read.
ProcessAllowedPayloadIds(s, t, req, env, lookup, allowed) ==
    Only({Only({ProcessResolved(t, req, env, lookup, allowed, sync,
                                [selected |-> resolved.selected,
                                 meal_record_ids |->
                                     [m \in allowed |->
                                         IF m \in DOMAIN req.payload.meal_record_ids
                                         THEN req.payload.meal_record_ids[m] ELSE NoId]]) :
                resolved \in {_resolve_selected_from_rows(sync.rows, allowed)}}) :
          sync \in {_sync_disallowed_meal_rows(
                        s, req.target_date, req.operator, allowed,
                        list_user_meal_rows(s, req.target_date, req.operator), env)}})

\* _process_action once the allowed meals are known: read the user's rows,
\* cancel the reserved rows of meals not allowed, resolve the selection.
ProcessAllowed(s, t, req, env, lookup, allowed) ==
    Only({Only({ProcessResolved(t, req, env, lookup, allowed, sync, resolved) :
                resolved \in {_resolve_selected_from_rows(sync.rows, allowed)}}) :
          sync \in {_sync_disallowed_meal_rows(
                        s, req.target_date, req.operator, allowed,
                        list_user_meal_rows(s, req.target_date, req.operator), env)}})

\* A handler that takes the allowed meals from the card payload instead of
\* deciding them from the schedule rules.
ProcessOwnedTrustsPayload(s, c, t, table, req, env) ==
    IF req.target_date = BadDate
    THEN Out(s, c, "error", MsgBadDate, None, NoCard, <<>>, {})
    ELSE IF _load_user(req.operator) = 0
    THEN Out(s, c, "error", MsgNotInRoster, None, NoCard,
             <<ReadCall("list_user_profiles")>>, {})
    ELSE Only({ProcessAllowed(s, t, req, env, lookup, req.payload.allowed_meals) :
               lookup \in {_list_schedule_rules(c, t, table, FALSE)}})

\* _process_action after its owner check, inside handle_card_action: the
\* toast and card of one card action, the table and cache after it, and
\* the calls it made.  A ValueError becomes an error toast with its message.
ProcessOwned(s, c, t, table, req, env) ==
    IF req.target_date = BadDate
    THEN Out(s, c, "error", MsgBadDate, None, NoCard, <<>>, {})
    ELSE IF _load_user(req.operator) = 0
    THEN Out(s, c, "error", MsgNotInRoster, None, NoCard,
             <<ReadCall("list_user_profiles")>>, {})
    ELSE Only({Only({ProcessAllowed(s, t, req, env, lookup, allowed) :
                     allowed \in {decide(req.target_date, lookup.rules)}}) :
               lookup \in {_list_schedule_rules(c, t, table, FALSE)}})

\* A handler that rejects only the absent operator.
ProcessActionNoMismatchCheck(s, c, t, table, req, env) ==
    IF req.operator = None
    THEN Out(s, c, "error", MsgOwnerOnly, None, NoCard, <<>>, {})
    ELSE ProcessOwned(s, c, t, table, req, env)

\* _process_action: only the card's owner may act on it.
_process_action(s, c, t, table, req, env) ==
    IF req.operator = None \/ req.operator # req.target_open_id
    THEN Out(s, c, "error", MsgOwnerOnly, None, NoCard, <<>>, {})
    ELSE ProcessOwned(s, c, t, table, req, env)

\* -------------------------------------------------------------- daily cards
\* list_user_profiles as the daily job reads it: two enabled users, one
\* who prefers the lunch and one who prefers both meals, and between them
\* a disabled user.
DailyProfiles ==
    <<[open_id |-> "ou_1", enabled |-> TRUE, lunch_price |-> LunchPrice,
       dinner_price |-> DinnerPrice, meal_preferences |-> {LUNCH}],
      [open_id |-> "ou_3", enabled |-> FALSE, lunch_price |-> LunchPrice,
       dinner_price |-> DinnerPrice, meal_preferences |-> {LUNCH}],
      [open_id |-> "ou_2", enabled |-> TRUE, lunch_price |-> LunchPrice,
       dinner_price |-> DinnerPrice, meal_preferences |-> {LUNCH, DINNER}]>>

EnabledUsers == {i \in 1 .. Len(DailyProfiles) : DailyProfiles[i].enabled}

\* Where the processing of one user raises: nowhere, in the read of the
\* user's rows, in the first upsert, or in the send of the card.
Faults == {"none", "rows", "upsert", "send"}

\* A repository call of the daily job, with the user it is made for.
JobCall(op, open_id, meal, record_id, mode) ==
    [op |-> op, user |-> open_id, meal |-> meal, record_id |-> record_id, mode |-> mode]

\* The upserts of _send_card_to_user, for the selected meals without a row.
RECURSIVE SendFold(_, _, _, _, _, _, _)
SendFold(ms, s, target_date, open_id, meal_prices, ids, cs) ==
    IF ms = <<>> THEN [store |-> s, ids |-> ids, calls |-> cs]
    ELSE Only({SendFold(Tail(ms), res.store, target_date, open_id, meal_prices,
                        [ids EXCEPT ![Head(ms)] = res.ret],
                        Append(cs, JobCall("upsert_meal_record", open_id, Head(ms),
                                           res.ret, res.mode))) :
               res \in {upsert_meal_record(s, target_date, open_id, Head(ms),
                                           meal_prices[Head(ms)], NoId, FALSE)}})

SendOutcome(s, cs, sent, raised) ==
    [store |-> s, calls |-> cs, sent |-> sent, raised |-> raised]

\* A _send_card_to_user that reserves every default meal that is not
\* reserved, whether or not it has a row.
SendCardReservesDefaults(s, user, target_date, allowed_meals, order, fault) ==
    LET defaults == user.meal_preferences \cap allowed_meals
        read == JobCall("list_user_meal_rows", user.open_id, None, NoId, "read")
    IN  Only({Only({SendOutcome(w.store, <<read>> \o w.calls,
                                <<[receive_id |-> user.open_id,
                                   card |-> build_payload(allowed_meals,
                                                          resolved.selected \cup defaults,
                                                          w.ids)]>>, FALSE) :
                    w \in {SendFold(InOrder(order, defaults \ resolved.selected), s,
                                    target_date, user.open_id,
                                    _build_meal_prices(user, allowed_meals),
                                    resolved.meal_record_ids, <<>>)}}) :
              resolved \in {_resolve_selected_from_rows(
                                list_user_meal_rows(s, target_date, user.open_id),
                                allowed_meals)}})

\* _send_card_to_user: the defaults without a row are selected and
\* written, then the card is built and sent.
_send_card_to_user(s, user, target_date, allowed_meals, order, fault) ==
    LET defaults == user.meal_preferences \cap allowed_meals
        meal_prices == _build_meal_prices(user, allowed_meals)
        read == JobCall("list_user_meal_rows", user.open_id, None, NoId, "read")
    IN  IF fault = "rows" THEN SendOutcome(s, <<read>>, <<>>, TRUE)
        ELSE Only({
            LET meal_record_ids == resolved.meal_record_ids
                selected == resolved.selected
                                \cup {m \in defaults : meal_record_ids[m] = NoId}
                todo == InOrder(order, {m \in selected : meal_record_ids[m] = NoId})
            IN  IF fault = "upsert" /\ todo # <<>>
                THEN SendOutcome(s, <<read, JobCall("upsert_meal_record", user.open_id,
                                                    todo[1], NoId, "raised")>>,
                                 <<>>, TRUE)
                ELSE Only({
                    IF fault = "send"
                    THEN SendOutcome(w.store, <<read>> \o w.calls, <<>>, TRUE)
                    ELSE SendOutcome(w.store, <<read>> \o w.calls,
                                     <<[receive_id |-> user.open_id,
                                        card |-> build_payload(allowed_meals, selected,
                                                               w.ids)]>>, FALSE) :
                    w \in {SendFold(todo, s, target_date, user.open_id, meal_prices,
                                    meal_record_ids, <<>>)}}) :
            resolved \in {_resolve_selected_from_rows(
                              list_user_meal_rows(s, target_date, user.open_id),
                              allowed_meals)}})

JobOutcome(s, c, p, cs, sent, failed, raised) ==
    [store |-> s, cache |-> c, plan |-> p, calls |-> cs, sent |-> sent,
     failed |-> failed, raised |-> raised]

\* A loop that processes every user of the roster, enabled or not.
RECURSIVE DailyFoldEveryUser(_, _, _, _, _, _, _, _, _)
DailyFoldEveryUser(i, s, target_date, allowed_meals, order, faults, cs, sent, failed) ==
    IF i > Len(DailyProfiles) THEN [store |-> s, calls |-> cs, sent |-> sent, failed |-> failed]
    ELSE Only({DailyFoldEveryUser(i + 1, r.store, target_date, allowed_meals, order, faults,
                                  cs \o r.calls, sent \o r.sent,
                                  IF r.raised THEN failed \cup {DailyProfiles[i].open_id}
                                  ELSE failed) :
               r \in {_send_card_to_user(s, DailyProfiles[i], target_date, allowed_meals,
                                         order, faults[i])}})

\* A loop without the try: the first exception of a user's processing
\* ends it, and the users after that one are not processed.
RECURSIVE DailyFoldNoTry(_, _, _, _, _, _, _, _, _)
DailyFoldNoTry(i, s, target_date, allowed_meals, order, faults, cs, sent, failed) ==
    IF i > Len(DailyProfiles) THEN [store |-> s, calls |-> cs, sent |-> sent, failed |-> failed]
    ELSE IF ~DailyProfiles[i].enabled
    THEN DailyFoldNoTry(i + 1, s, target_date, allowed_meals, order, faults, cs, sent, failed)
    ELSE Only({IF r.raised
               THEN [store |-> r.store, calls |-> cs \o r.calls, sent |-> sent,
                     failed |-> failed \cup {DailyProfiles[i].open_id}]
               ELSE DailyFoldNoTry(i + 1, r.store, target_date, allowed_meals, order,
                                   faults, cs \o r.calls, sent \o r.sent, failed) :
               r \in {_send_card_to_user(s, DailyProfiles[i], target_date, allowed_meals,
                                         order, faults[i])}})

\* The loop of send_daily_cards over the roster from position i on: an
\* exception of one user's processing is logged and the loop goes on.
RECURSIVE DailyFold(_, _, _, _, _, _, _, _, _)
DailyFold(i, s, target_date, allowed_meals, order, faults, cs, sent, failed) ==
    IF i > Len(DailyProfiles) THEN [store |-> s, calls |-> cs, sent |-> sent, failed |-> failed]
    ELSE IF ~DailyProfiles[i].enabled
    THEN DailyFold(i + 1, s, target_date, allowed_meals, order, faults, cs, sent, failed)
    ELSE Only({DailyFold(i + 1, r.store, target_date, allowed_meals, order, faults,
                         cs \o r.calls, sent \o r.sent,
                         IF r.raised THEN failed \cup {DailyProfiles[i].open_id}
                         ELSE failed) :
               r \in {_send_card_to_user(s, DailyProfiles[i], target_date, allowed_meals,
                                         order, faults[i])}})

\* A send_daily_cards that takes the rules as any other lookup does, from the
\* cache while it is good.
SendDailyCardsCached(s, c, t, table, target_date, order, faults) ==
    LET lookup == _list_schedule_rules(c, t, table, FALSE)
        p == DailyMealPlan(target_date, decide(target_date, lookup.rules))
        cs0 == IF lookup.fetched
               THEN <<JobCall("list_schedule_rules", None, None, NoId, "read")>>
               ELSE <<>>
    IN  IF p.meals = {} THEN JobOutcome(s, lookup.cache, p, cs0, <<>>, {}, FALSE)
        ELSE Only({JobOutcome(f.store, lookup.cache, p,
                              cs0 \o <<JobCall("list_user_profiles", None, None, NoId, "read")>>
                                  \o f.calls,
                              f.sent, f.failed, FALSE) :
                   f \in {DailyFold(1, s, target_date, p.meals, order, faults,
                                    <<>>, <<>>, {})}})

\* send_daily_cards: the rules are fetched afresh; a day without meals is
\* skipped; else every enabled user of the roster is processed.
send_daily_cards(s, c, t, table, target_date, order, faults) ==
    LET lookup == _list_schedule_rules(c, t, table, TRUE)
        p == DailyMealPlan(target_date, decide(target_date, lookup.rules))
        cs0 == <<JobCall("list_schedule_rules", None, None, NoId, "read")>>
    IN  IF p.meals = {} THEN JobOutcome(s, lookup.cache, p, cs0, <<>>, {}, FALSE)
        ELSE Only({JobOutcome(f.store, lookup.cache, p,
                              cs0 \o <<JobCall("list_user_profiles", None, None, NoId, "read")>>
                                  \o f.calls,
                              f.sent, f.failed, FALSE) :
                   f \in {DailyFold(1, s, target_date, p.meals, order, faults,
                                    <<>>, <<>>, {})}})

\* ------------------------------------------------------- card action input
Request(operator, target_open_id, target_date, action, toggle_meal, meals) ==
    [operator |-> operator, target_open_id |-> target_open_id,
     target_date |-> target_date, action |-> action, toggle_meal |-> toggle_meal,
     meals |-> meals]

\* (operator, target_open_id): absent operator, another user's card, a user
\* outside the roster, the card owner.
Owners == {<<None, "ou_1">>, <<"ou_2", "ou_1">>, <<"ou_2", "ou_2">>, <<"ou_1", "ou_1">>}
\* Card actions are sent for day 1 (or with a malformed date); the clock
\* runs from the eve of day 1 to the morning after it.
TargetDates == {BadDate} \cup CallDates

\* The card owner sends every action; the requests that fail the owner
\* check are a toggle and a refresh.
Requests ==
    {Request("ou_1", "ou_1", d, "toggle_meal", x, {}) :
        d \in CallDates, x \in {LUNCH, DINNER, CANCELLED}}
    \cup {Request("ou_1", "ou_1", d, "submit_reservation", None, f) :
        d \in CallDates, f \in SUBSET Meals}
    \cup {Request("ou_1", "ou_1", d, a, None, {}) :
        d \in TargetDates, a \in {"refresh_state", "other"}}
    \cup {Request(o[1], o[2], d, "toggle_meal", LUNCH, {}) : o \in Owners, d \in CallDates}
    \cup {Request(o[1], o[2], d, "refresh_state", None, {}) : o \in Owners, d \in CallDates}

NoRequest == Request(None, None, BadDate, "none", None, {})
NoResponse == [level |-> "none", content |-> "none", meal |-> None, card |-> NoCard,
               changed |-> {}]

\* The fields of a card's action value that _process_action never reads:
\* what the card showed when it was built.
Payload(allowed_meals, selected_meals, record_id) ==
    [allowed_meals |-> allowed_meals, default_meals |-> allowed_meals,
     selected_meals |-> selected_meals,
     meal_prices |-> [m \in allowed_meals |-> IF record_id = NoId THEN PriceOf(m)
                                                                 ELSE ZeroPrice],
     meal_record_ids |-> [m \in allowed_meals |-> record_id]]

\* A card built when nothing was allowed, and a card built (or forged) with
\* every meal allowed and selected and record ids that no row carries.
Payloads == {Payload({}, {}, NoId), Payload(Meals, Meals, StaleId)}

\* A request together with the payload of the card it was sent from.
WithPayload(req, payload) ==
    [operator |-> req.operator, target_open_id |-> req.target_open_id,
     target_date |-> req.target_date, action |-> req.action,
     toggle_meal |-> req.toggle_meal, meals |-> req.meals, payload |-> payload]

\* The owner's toggles, submits and refresh, and another user's refresh.
PayloadRequests ==
    {Request("ou_1", "ou_1", d, "toggle_meal", x, {}) :
        d \in CallDates, x \in {LUNCH, DINNER}}
    \cup {Request("ou_1", "ou_1", d, "submit_reservation", None, f) :
        d \in CallDates, f \in {{DINNER}, Meals}}
    \cup {Request(o, "ou_1", d, "refresh_state", None, {}) :
        o \in {"ou_1", "ou_2"}, d \in CallDates}

Init ==
    /\ store = <<>>
    /\ last = NoCall
    /\ rules \in RuleTables
    /\ now = StartNow
    /\ cache = NoCache
    /\ act = NoRequest
    /\ resp = NoResponse
    /\ calls = <<>>
    /\ plan = NoPlan
    /\ outbox = <<>>

\* Another process or an administrator appends a row to the table: the
\* store enforces no uniqueness, so any row may appear.
ExternalAppend(d, u, m, p, st) ==
    /\ Len(store) < MaxRows
    /\ store' = create_record(store, _meal_payload(d, u, m, p, st))
    /\ last' = NoCall
    /\ act' = NoRequest
    /\ resp' = NoResponse
    /\ calls' = <<>>
    /\ plan' = NoPlan
    /\ outbox' = <<>>
    /\ UNCHANGED <<rules, now, cache>>

\* A call of upsert_meal_record.  again: the previous call was the same
\* upsert (same date, user, meal and price).
Upsert(d, u, m, p, hint, direct) ==
    \E res \in {upsert_meal_record(store, d, u, m, p, hint, direct)} :
        /\ Len(res.store) <= MaxRows
        /\ store' = res.store
        /\ last' = [op |-> "upsert", date |-> d, user |-> u, meal |-> m, price |-> p,
                    hint |-> hint, direct |-> direct, ret |-> res.ret, mode |-> res.mode,
                    rows |-> <<>>,
                    again |-> (last.op = "upsert" /\ last.date = d /\ last.user = u
                               /\ last.meal = m /\ last.price = p),
                    grew |-> (Len(res.store) > Len(store)),
                    wrote |-> (res.store # store),
                    hintOk |-> HintOk(store, d, u, m, hint),
                    prevHintOk |-> last.hintOk,
                    hintIsEff |-> (hint # NoId /\ hint = EffectiveId(store, d, u, m)),
                    wasReserved |-> EffectiveReserved(store, d, u, m)]
        /\ UNCHANGED svcVars

\* A call of cancel_meal_record.  again: the previous call was an upsert of
\* the same key and this call passes the id it returned; price then keeps
\* the price that upsert wrote.
Cancel(d, u, m, hint, direct) ==
    \E res \in {cancel_meal_record(store, d, u, m, hint, direct)} :
        /\ store' = res.store
        /\ last' = [op |-> "cancel", date |-> d, user |-> u, meal |-> m,
                    price |-> IF last.op = "upsert" THEN last.price ELSE 0,
                    hint |-> hint, direct |-> direct, ret |-> res.ret, mode |-> res.mode,
                    rows |-> <<>>,
                    again |-> (last.op = "upsert" /\ last.date = d /\ last.user = u
                               /\ last.meal = m /\ hint = last.ret),
                    grew |-> FALSE,
                    wrote |-> (res.store # store),
                    hintOk |-> HintOk(store, d, u, m, hint),
                    prevHintOk |-> last.hintOk,
                    hintIsEff |-> (hint # NoId /\ hint = EffectiveId(store, d, u, m)),
                    wasReserved |-> EffectiveReserved(store, d, u, m)]
        /\ UNCHANGED svcVars

\* A call of list_user_meal_rows.
ListRows(d, u) ==
    /\ store' = store
    /\ last' = [NoCall EXCEPT !.op = "list", !.date = d, !.user = u,
                              !.rows = list_user_meal_rows(store, d, u)]
    /\ UNCHANGED svcVars

\* A call of count_meal_records.
Count(d, m) ==
    /\ store' = store
    /\ last' = [NoCall EXCEPT !.op = "count", !.date = d, !.meal = m,
                              !.ret = count_meal_records(store, d, m)]
    /\ UNCHANGED svcVars

\* The rows other writers add: reserved rows of the called key's date and
\* user, and reserved lunch rows of the other user or of the other date
\* (cancelled rows come from cancel_meal_record).
ExternalAppendStep ==
    \E d \in Dates, u \in Users, m \in Meals, st \in BOOLEAN :
        /\ st
        /\ (d \in CallDates /\ u \in CallUsers)
           \/ (m = LUNCH /\ (d \in CallDates \/ u \in CallUsers))
        /\ ExternalAppend(d, u, m, PriceOf(m), st)

UpsertStep ==
    \E d \in CallDates, u \in CallUsers, m \in Meals, direct \in BOOLEAN :
      \E hint \in Hints(store, d, u) :
          Upsert(d, u, m, PriceOf(m), hint, direct)

CancelStep ==
    \E d \in CallDates, u \in CallUsers, m \in Meals, direct \in BOOLEAN :
      \E hint \in Hints(store, d, u) :
          Cancel(d, u, m, hint, direct)

ListRowsStep ==
    \E d \in CallDates, u \in CallUsers : ListRows(d, u)

CountStep ==
    \E d \in CallDates, m \in Meals : Count(d, m)

NextRepo == ExternalAppendStep \/ UpsertStep \/ CancelStep \/ ListRowsStep \/ CountStep

\* The repository on its own: the service is idle, on an empty schedule.
InitRepo == Init /\ rules = <<>>

SpecRepo == InitRepo /\ [][NextRepo]_vars

\* An upsert whose record_id is the id of any row of the table, also of a
\* row of another user or date: a row an administrator re-assigned after
\* the caller read its id.
AnyRowUpsertStep ==
    \E d \in CallDates, u \in CallUsers, m \in Meals, direct \in BOOLEAN :
      \E hint \in RecordIds(store) :
          Upsert(d, u, m, PriceOf(m), hint, direct)

NextAnyRow == ExternalAppendStep \/ AnyRowUpsertStep

\* upsert_meal_record under record ids of any row.
SpecAnyRow == InitRepo /\ [][NextAnyRow]_vars

\* ------------------------------------------------------------ card actions
\* One card action, handled whole by handle_card_action.
CardAction(req, env) ==
    \E r \in {_process_action(store, cache, now, rules, req, env)} :
        /\ Len(r.store) <= MaxRows
        /\ store' = r.store
        /\ cache' = r.cache
        /\ act' = req
        /\ resp' = [level |-> r.level, content |-> r.content, meal |-> r.meal,
                    card |-> r.card, changed |-> r.changed]
        /\ calls' = r.calls
        /\ UNCHANGED <<last, rules, now, plan, outbox>>

\* The iteration order is drawn only where two meals can be iterated: the
\* changed meals of a submit, or the disallowed meals when none is allowed;
\* a rejected update only where the card's owner has a row to update, for
\* a toggle or a refresh.
CardActionStep ==
    \E req \in Requests, env \in Envs :
        /\ \/ env.order = <<LUNCH, DINNER>>
           \/ /\ ~env.fails
              /\ \/ req.action = "submit_reservation"
                 \/ decide(req.target_date, rules) = {}
                 \/ decide(req.target_date, cache.rules) = {}
        /\ env.fails =>
              /\ req.operator = req.target_open_id
              /\ req.action \in {"toggle_meal", "refresh_state"}
              /\ KeyRowsOf(store, req.target_date, req.operator) # {}
        /\ CardAction(req, env)

\* Time passes; act, resp and calls describe a card action handled at the
\* current tick on the current table, so they are cleared.
Tick ==
    /\ now < MaxNow
    /\ now' = now + 1
    /\ act' = NoRequest
    /\ resp' = NoResponse
    /\ calls' = <<>>
    /\ UNCHANGED <<store, last, rules, cache, plan, outbox>>

\* Another writer reserves a meal in the table: either meal for the card's
\* user, or, as the table's first row, a lunch for the other user.
ExternalReserveStep ==
    \E d \in CallDates, u \in Users, m \in Meals :
        /\ u \in CallUsers \/ (m = LUNCH /\ store = <<>>)
        /\ ExternalAppend(d, u, m, PriceOf(m), TRUE)

Next == CardActionStep \/ Tick \/ ExternalReserveStep

Spec == Init /\ [][Next]_vars

\* ---------------------------------------------------------- the daily job
\* The request record of a daily job: its date and, per roster position,
\* where the processing of that user raises.
JobRequest(target_date, faults) ==
    [operator |-> None, target_open_id |-> None, target_date |-> target_date,
     action |-> "send_daily_cards", toggle_meal |-> None, meals |-> {},
     faults |-> faults]

\* One run of send_daily_cards, whole.  It adds at most one row per
\* enabled user and default meal, and none once those rows exist.
SendDailyCards(target_date, order, faults) ==
    \E r \in {send_daily_cards(store, cache, now, rules, target_date, order, faults)} :
        /\ store' = r.store
        /\ cache' = r.cache
        /\ plan' = r.plan
        /\ calls' = r.calls
        /\ outbox' = r.sent
        /\ act' = JobRequest(target_date, faults)
        /\ resp' = [NoResponse EXCEPT !.level = IF r.raised THEN "raised" ELSE "done",
                                      !.changed = r.failed]
        /\ UNCHANGED <<last, rules, now>>

\* The job runs for day 1 (a Friday) or day 2 (a Saturday); the processing
\* of at most one user raises, and the iteration order is drawn only where
\* it can show, in a run without failure.
SendDailyCardsStep ==
    \E d \in Dates, order \in Orders, faults \in [1 .. Len(DailyProfiles) -> Faults] :
        /\ \A i \in 1 .. Len(DailyProfiles) : ~DailyProfiles[i].enabled => faults[i] = "none"
        /\ Cardinality({i \in EnabledUsers : faults[i] # "none"}) <= 1
        /\ order = <<LUNCH, DINNER>> \/ \A i \in EnabledUsers : faults[i] = "none"
        /\ SendDailyCards(d, order, faults)

\* A row of either user for day 1 appears, as card actions and other
\* writers leave them: a reserved row, or a cancelled lunch.
ExternalRowStep ==
    \E d \in CallDates, u \in Users, m \in Meals, st \in BOOLEAN :
        /\ st \/ m = LUNCH
        /\ ExternalAppend(d, u, m, IF st THEN PriceOf(m) ELSE ZeroPrice, st)

NextDaily == SendDailyCardsStep \/ ExternalRowStep

\* The daily job and the rows it finds.
SpecDaily == Init /\ [][NextDaily]_vars

\* ------------------------------------------------------------ the decider
\* The rules handed to decide: ranges over the Friday, the Saturday or
\* both, offering any set of the two bookable meals (parse_meals keeps
\* only those).
DecideRules ==
    {[start_date |-> r[1], end_date |-> r[2], meals |-> ms] :
        r \in {<<1, 1>>, <<2, 2>>, <<1, 2>>}, ms \in SUBSET Meals}

RuleLists == UNION {[1 .. n -> DecideRules] : n \in 0 .. MaxRules}

InitDecide ==
    /\ store = <<>>
    /\ last = NoCall
    /\ rules \in RuleLists
    /\ now = StartNow
    /\ cache = NoCache
    /\ act = NoRequest
    /\ resp = NoResponse
    /\ calls = <<>>
    /\ plan = NoPlan
    /\ outbox = <<>>

\* A call of decide for a day, on the rule list.
DecideStep ==
    \E d \in 1 .. MaxDay :
        /\ plan' = DailyMealPlan(d, decide(d, rules))
        /\ UNCHANGED <<store, last, rules, now, cache, act, resp, calls, outbox>>

NextDecide == DecideStep

\* The decider on its own, over rule lists and days.
SpecDecide == InitDecide /\ [][NextDecide]_vars

\* The environment in which the meals keep their order and the table
\* answers.
WorkingEnv == [order |-> <<LUNCH, DINNER>>, fails |-> FALSE]

\* The card actions of PayloadRequests, each with any of the payloads.
PayloadCards == {WithPayload(req, payload) : req \in PayloadRequests, payload \in Payloads}

\* A card action sent from a card with any of the payloads.
PayloadActionStep ==
    \E req \in PayloadCards : CardAction(req, WorkingEnv)

NextPayload == PayloadActionStep \/ Tick \/ ExternalReserveStep

\* Card actions whose payloads vary.
SpecPayload == Init /\ [][NextPayload]_vars

\* Cards (forged, or built before the table changed) whose payload names,
\* for every meal, the record id of the table's first or second row,
\* whoever owns that row.
RowPayloads == {Payload(Meals, Meals, record_id) : record_id \in 1 .. MaxRows}

\* The card actions of PayloadRequests, each with any of these payloads.
RowPayloadCards == {WithPayload(req, payload) : req \in PayloadRequests, payload \in RowPayloads}

\* A card action of the owner, or another user's refresh, sent from such
\* a card.
RowPayloadActionStep ==
    \E req \in RowPayloadCards : CardAction(req, WorkingEnv)

NextRowPayload == RowPayloadActionStep \/ Tick \/ ExternalReserveStep

\* Card actions whose payloads carry the record ids of rows.
SpecRowPayload == Init /\ [][NextRowPayload]_vars

\* ------------------------------------------------------------ the stats job
MaxReceivers == 2

\* The user cells of the stats_receivers table: a person, or an empty cell
\* (_extract_open_id returns None).
ReceiverCells == Users \cup {None}

ReceiverTables == UNION {[1 .. n -> ReceiverCells] : n \in 0 .. MaxReceivers}

\* list_stats_receiver_open_ids: the open_ids of the table without the empty
\* cells, each once, at the place of its last record.
list_stats_receiver_open_ids(records) ==
    LET Keep(i) == /\ records[i] # None
                   /\ \A j \in (i + 1) .. Len(records) : records[j] # records[i]
        F[i \in 0 .. Len(records)] ==
            IF i = 0 THEN <<>>
            ELSE IF Keep(i) THEN Append(F[i - 1], records[i]) ELSE F[i - 1]
    IN  F[Len(records)]

\* The text of a stats message: date, meal, count and the weekday of the date.
StatsText(target_date, meal, count) ==
    [date |-> target_date, meal |-> meal, count |-> count, weekday |-> weekday(target_date)]

\* for open_id in receivers: self._im.send_text(open_id, text).  A send the
\* messenger refuses raises out of the loop.
RECURSIVE StatsFold(_, _, _, _, _)
StatsFold(receivers, i, text, refused, sent) ==
    IF i > Len(receivers) THEN [sent |-> sent, raised |-> FALSE]
    ELSE IF receivers[i] \in refused THEN [sent |-> sent, raised |-> TRUE]
    ELSE StatsFold(receivers, i + 1, text, refused,
                   Append(sent, [receive_id |-> receivers[i], text |-> text]))

\* send_stats: the count, the receivers, nothing when there are none, else
\* the same text to each.
send_stats(s, target_date, meal, records, refused) ==
    LET count == count_meal_records(s, target_date, meal)
        receivers == list_stats_receiver_open_ids(records)
    IN  IF receivers = <<>> THEN [sent |-> <<>>, raised |-> FALSE]
        ELSE StatsFold(receivers, 1, StatsText(target_date, meal, count), refused, <<>>)

\* The request record of a stats job: date, meal, the receivers listed and
\* the receivers the messenger refuses.
StatsRequest(target_date, meal, receivers, refused) ==
    [operator |-> None, target_open_id |-> None, target_date |-> target_date,
     action |-> "send_stats", toggle_meal |-> meal, meals |-> {},
     receivers |-> receivers, refused |-> refused]

\* One run of send_stats, whole.
SendStats(target_date, meal, records, refused) ==
    \E r \in {send_stats(store, target_date, meal, records, refused)} :
        /\ outbox' = r.sent
        /\ act' = StatsRequest(target_date, meal,
                               list_stats_receiver_open_ids(records), refused)
        /\ resp' = [NoResponse EXCEPT !.level = IF r.raised THEN "raised" ELSE "done"]
        /\ calls' = <<>>
        /\ plan' = NoPlan
        /\ UNCHANGED <<store, last, rules, now, cache>>

\* The job runs for day 1 and a meal, over any receivers table, while the
\* messenger refuses at most one person.
SendStatsStep ==
    \E d \in CallDates, m \in Meals, records \in ReceiverTables, refused \in SUBSET Users :
        /\ Cardinality(refused) <= 1
        /\ SendStats(d, m, records, refused)

NextStats == SendStatsStep \/ ExternalRowStep

\* The stats job and the rows it counts.
SpecStats == InitRepo /\ [][NextStats]_vars

\* ------------------------------------------------------------- fee archive
\* Calendar dates of the fee archive: year, month, day.
MinYear == 2026
MaxYear == 2028

Date(year, month, day) == [year |-> year, month |-> month, day |-> day]

IsLeap(year) == year % 4 = 0 /\ (year % 100 # 0 \/ year % 400 = 0)

\* calendar.monthrange(year, month)[1]: the days of the month.
monthrange(year, month) ==
    IF month = 2 THEN (IF IsLeap(year) THEN 29 ELSE 28)
    ELSE IF month \in {4, 6, 9, 11} THEN 30 ELSE 31

IsDate(d) == d.month \in 1 .. 12 /\ d.day \in 1 .. monthrange(d.year, d.month)

\* date + timedelta(days=1).
NextDay(d) ==
    IF d.day < monthrange(d.year, d.month) THEN Date(d.year, d.month, d.day + 1)
    ELSE IF d.month < 12 THEN Date(d.year, d.month + 1, 1)
    ELSE Date(d.year + 1, 1, 1)

\* The order of dates.
DateLeq(a, b) ==
    \/ a.year < b.year
    \/ a.year = b.year /\ a.month < b.month
    \/ a.year = b.year /\ a.month = b.month /\ a.day <= b.day

\* The month before a month, as a date's year and month.
PreviousMonth(year, month) ==
    IF month = 1 THEN [year |-> year - 1, month |-> 12]
    ELSE [year |-> year, month |-> month - 1]

\* The month after a month.
FollowingMonth(year, month) ==
    IF month = 12 THEN [year |-> year + 1, month |-> 1]
    ELSE [year |-> year, month |-> month + 1]

\* The date one month before a date: the same day of the previous month,
\* or that month's last day when it has no such day.
MinusOneMonth(d) ==
    LET pm == PreviousMonth(d.year, d.month)
        last_day == monthrange(pm.year, pm.month)
    IN  Date(pm.year, pm.month, IF d.day < last_day THEN d.day ELSE last_day)

\* The settlement date of a month: the configured day of the month, or the
\* month's last day when the month has no such day.
SettlementDate(year, month, day_of_month) ==
    LET last_day == monthrange(year, month)
    IN  Date(year, month, IF day_of_month < last_day THEN day_of_month ELSE last_day)

\* An interval that starts one month and one day before the date.
ArchiveIntervalMonthBack(target_date, day_of_month) ==
    [start_date |-> NextDay(MinusOneMonth(target_date)), end_date |-> target_date]

\* An interval that starts on the first day of the date's month.
ArchiveIntervalFromFirst(target_date, day_of_month) ==
    [start_date |-> Date(target_date.year, target_date.month, 1), end_date |-> target_date]

\* The closed interval archived on a settlement date: from the day after
\* the previous month's settlement date to the date itself.
ArchiveInterval(target_date, day_of_month) ==
    LET pm == PreviousMonth(target_date.year, target_date.month)
    IN  [start_date |-> NextDay(SettlementDate(pm.year, pm.month, day_of_month)),
         end_date |-> target_date]

\* A preview that runs only on the configured day of the month itself.
PreviewExactDayOnly(target_date, day_of_month) ==
    LET interval == ArchiveInterval(target_date, day_of_month)
    IN  IF target_date.day # day_of_month
        THEN [should_run |-> FALSE, settlement |-> target_date,
              start_date |-> target_date, end_date |-> target_date]
        ELSE [should_run |-> TRUE, settlement |-> target_date,
              start_date |-> interval.start_date, end_date |-> interval.end_date]

\* preview_fee_archive: whether the archive runs on the date, and what it
\* reports: the settlement date of the month, and the interval when it runs.
preview_fee_archive(target_date, day_of_month) ==
    LET settlement == SettlementDate(target_date.year, target_date.month, day_of_month)
        interval == ArchiveInterval(target_date, day_of_month)
    IN  IF target_date # settlement
        THEN [should_run |-> FALSE, settlement |-> settlement,
              start_date |-> settlement, end_date |-> settlement]
        ELSE [should_run |-> TRUE, settlement |-> settlement,
              start_date |-> interval.start_date, end_date |-> interval.end_date]

\* MealFeeSummary.
MealFeeSummary(open_id, total_fee, lunch_count, dinner_count) ==
    [open_id |-> open_id, total_fee |-> total_fee,
     lunch_count |-> lunch_count, dinner_count |-> dinner_count]

\* The summaries with one more reserved row of a user added in: to the
\* user's summary, or to a new one at the end.
AddToSummary(summaries, row) ==
    LET lunch == IF _to_meal(row.meal) = LUNCH THEN 1 ELSE 0
        dinner == IF _to_meal(row.meal) = DINNER THEN 1 ELSE 0
    IN  IF \E k \in 1 .. Len(summaries) : summaries[k].open_id = row.user
        THEN [k \in 1 .. Len(summaries) |->
                IF summaries[k].open_id = row.user
                THEN MealFeeSummary(row.user, summaries[k].total_fee + row.price,
                                    summaries[k].lunch_count + lunch,
                                    summaries[k].dinner_count + dinner)
                ELSE summaries[k]]
        ELSE Append(summaries, MealFeeSummary(row.user, row.price, lunch, dinner))

\* Summaries over every reserved row of the interval, superseded or not.
FeeSummariesEveryRow(s, start_date, end_date) ==
    LET F[i \in 0 .. Len(s)] ==
            IF i = 0 THEN <<>>
            ELSE IF /\ start_date <= s[i].date /\ s[i].date <= end_date
                    /\ _to_meal(s[i].meal) # None /\ s[i].status
                 THEN AddToSummary(F[i - 1], s[i])
                 ELSE F[i - 1]
    IN  F[Len(s)]

\* list_meal_fee_summaries: over the rows of the closed interval, the last
\* row of each (date, user, meal) counts, when it is reserved: its price
\* into the user's total, its meal into the user's counts.
list_meal_fee_summaries(s, start_date, end_date) ==
    LET Later(i) == {j \in (i + 1) .. Len(s) :
                        /\ s[j].date = s[i].date /\ s[j].user = s[i].user
                        /\ _to_meal(s[j].meal) = _to_meal(s[i].meal)}
        F[i \in 0 .. Len(s)] ==
            IF i = 0 THEN <<>>
            ELSE IF /\ start_date <= s[i].date /\ s[i].date <= end_date
                    /\ _to_meal(s[i].meal) # None /\ s[i].status
                    /\ Later(i) = {}
                 THEN AddToSummary(F[i - 1], s[i])
                 ELSE F[i - 1]
    IN  F[Len(s)]

\* A call of list_meal_fee_summaries.
Summaries(start_date, end_date) ==
    /\ store' = store
    /\ last' = [op |-> "list_meal_fee_summaries", start_date |-> start_date,
                end_date |-> end_date,
                ret |-> list_meal_fee_summaries(store, start_date, end_date)]
    /\ UNCHANGED svcVars

\* The call is made for day 1, day 2 or both.
SummariesStep ==
    \E start_date \in Dates, end_date \in Dates :
        start_date <= end_date /\ Summaries(start_date, end_date)

\* A row of either day appears: reserved at either price, or cancelled at
\* no price.
FeeRowStep ==
    \E d \in Dates, u \in Users, m \in Meals, p \in {ZeroPrice, LunchPrice, DinnerPrice} :
        ExternalAppend(d, u, m, p, p # ZeroPrice)

NextFees == FeeRowStep \/ SummariesStep

\* The fee summaries and the rows they read.
SpecFees == InitRepo /\ [][NextFees]_vars

\* The dates the archive is evaluated on, and the days of the month the
\* configuration accepts.
ArchiveDates ==
    {d \in [year : MinYear .. MaxYear, month : 1 .. 12, day : 1 .. 31] : IsDate(d)}

ConfigDays == 1 .. 31

\* The request record of a fee archive evaluation.
FeeRequest(target_date, day_of_month) ==
    [operator |-> None, target_open_id |-> None, target_date |-> target_date,
     action |-> "fee_archive", toggle_meal |-> None, meals |-> {},
     day_of_month |-> day_of_month]

InitFeeDates ==
    /\ store = <<>>
    /\ last = NoCall
    /\ rules = <<>>
    /\ now = StartNow
    /\ cache = NoCache
    /\ act \in {FeeRequest(d, k) : d \in ArchiveDates, k \in ConfigDays}
    /\ resp = NoResponse
    /\ calls = <<>>
    /\ plan = NoPlan
    /\ outbox = <<>>

\* The evaluation of the request's date under the request's configuration.
PreviewStep ==
    /\ resp' = [level |-> "preview"]
                 @@ preview_fee_archive(act.target_date, act.day_of_month)
    /\ UNCHANGED <<store, last, rules, now, cache, act, calls, plan, outbox>>

NextFeeDates == PreviewStep

\* The settlement rule on its own, over dates and configured days.
SpecFeeDates == InitFeeDates /\ [][NextFeeDates]_vars

\* The calendar date of the model's day 1, a Friday.
FirstDay == Date(2026, 2, 13)

RECURSIVE DaysBeforeMonth(_, _)
DaysBeforeMonth(year, month) ==
    IF month = 1 THEN 0
    ELSE DaysBeforeMonth(year, month - 1) + monthrange(year, month - 1)

RECURSIVE DaysBeforeYear(_)
DaysBeforeYear(year) ==
    IF year = MinYear THEN 0
    ELSE IF year > MinYear
         THEN DaysBeforeYear(year - 1) + (IF IsLeap(year - 1) THEN 366 ELSE 365)
         ELSE DaysBeforeYear(year + 1) - (IF IsLeap(year) THEN 366 ELSE 365)

\* date.toordinal(), counted from the start of MinYear.
toordinal(d) == DaysBeforeYear(d.year) + DaysBeforeMonth(d.year, d.month) + d.day

\* The day of the meal table that a calendar date is.
DayNumber(d) == toordinal(d) - toordinal(FirstDay) + 1

\* The fee of a user in the summaries, 0 without a summary.
FeeIn(summaries, open_id) ==
    IF \E k \in 1 .. Len(summaries) : summaries[k].open_id = open_id
    THEN summaries[CHOOSE k \in 1 .. Len(summaries) : summaries[k].open_id = open_id].total_fee
    ELSE 0

\* The users of an archive: the aggregated users, then the users of the
\* roster that are not among them.
ArchiveUsers(summaries, roster) ==
    [k \in 1 .. Len(summaries) |-> summaries[k].open_id]
    \o SelectSeq([k \in 1 .. Len(roster) |-> roster[k].open_id],
                 LAMBDA u : \A k \in 1 .. Len(summaries) : summaries[k].open_id # u)

RECURSIVE SumFees(_, _, _)
SumFees(summaries, users, i) ==
    IF i > Len(users) THEN 0
    ELSE FeeIn(summaries, users[i]) + SumFees(summaries, users, i + 1)

ArchiveOutcome(ran, cs, sent, start_date, end_date, user_count, total_fee) ==
    [ran |-> ran, calls |-> cs, sent |-> sent, start_date |-> start_date,
     end_date |-> end_date, user_count |-> user_count, total_fee |-> total_fee]

\* An archive over the aggregated users only.
ArchiveAggregatedOnly(s, target_date, day_of_month, roster, records) ==
    LET preview == preview_fee_archive(target_date, day_of_month)
        start_date == preview.start_date
        end_date == preview.end_date
        summaries == list_meal_fee_summaries(s, DayNumber(start_date), DayNumber(end_date))
        users == ArchiveUsers(summaries, <<>>)
        receivers == list_stats_receiver_open_ids(records)
        total_fee == SumFees(summaries, users, 1)
    IN  IF ~preview.should_run
        THEN ArchiveOutcome(FALSE, <<>>, <<>>, start_date, end_date, 0, 0)
        ELSE ArchiveOutcome(TRUE,
                <<[op |-> "list_meal_fee_summaries", user |-> None,
                   start_date |-> start_date, end_date |-> end_date, fee |-> 0]>>
                \o [k \in 1 .. Len(users) |->
                        [op |-> "upsert_meal_fee_archive_record", user |-> users[k],
                         start_date |-> start_date, end_date |-> end_date,
                         fee |-> FeeIn(summaries, users[k])]],
                [k \in 1 .. Len(users) |->
                    [receive_id |-> users[k],
                     text |-> [kind |-> "fee", start_date |-> start_date,
                               end_date |-> end_date, fee |-> FeeIn(summaries, users[k])]]]
                \o [k \in 1 .. Len(receivers) |->
                        [receive_id |-> receivers[k],
                         text |-> [kind |-> "total", start_date |-> start_date,
                                   end_date |-> end_date, fee |-> total_fee]]],
                start_date, end_date, Len(users), total_fee)

\* archive_meal_fees: nothing off the settlement date; on it, the summaries
\* of the interval, one archive record and one message per user of the
\* summaries and of the roster, then the total to each stats receiver.
archive_meal_fees(s, target_date, day_of_month, roster, records) ==
    LET preview == preview_fee_archive(target_date, day_of_month)
        start_date == preview.start_date
        end_date == preview.end_date
        summaries == list_meal_fee_summaries(s, DayNumber(start_date), DayNumber(end_date))
        users == ArchiveUsers(summaries, roster)
        receivers == list_stats_receiver_open_ids(records)
        total_fee == SumFees(summaries, users, 1)
    IN  IF ~preview.should_run
        THEN ArchiveOutcome(FALSE, <<>>, <<>>, start_date, end_date, 0, 0)
        ELSE ArchiveOutcome(TRUE,
                <<[op |-> "list_meal_fee_summaries", user |-> None,
                   start_date |-> start_date, end_date |-> end_date, fee |-> 0]>>
                \o [k \in 1 .. Len(users) |->
                        [op |-> "upsert_meal_fee_archive_record", user |-> users[k],
                         start_date |-> start_date, end_date |-> end_date,
                         fee |-> FeeIn(summaries, users[k])]],
                [k \in 1 .. Len(users) |->
                    [receive_id |-> users[k],
                     text |-> [kind |-> "fee", start_date |-> start_date,
                               end_date |-> end_date, fee |-> FeeIn(summaries, users[k])]]]
                \o [k \in 1 .. Len(receivers) |->
                        [receive_id |-> receivers[k],
                         text |-> [kind |-> "total", start_date |-> start_date,
                                   end_date |-> end_date, fee |-> total_fee]]],
                start_date, end_date, Len(users), total_fee)

\* The request record of an archive job: the date it runs for (the local
\* date of the trigger, execute_cron_action), the configured day and the
\* stats receivers listed.
ArchiveRequest(target_date, day_of_month, receivers) ==
    [operator |-> None, target_open_id |-> None, target_date |-> target_date,
     action |-> "archive_meal_fees", toggle_meal |-> None, meals |-> {},
     day_of_month |-> day_of_month, receivers |-> receivers]

\* One run of archive_meal_fees, whole.
ArchiveMealFees(target_date, day_of_month, records) ==
    \E r \in {archive_meal_fees(store, target_date, day_of_month, list_user_profiles, records)} :
        /\ calls' = r.calls
        /\ outbox' = r.sent
        /\ act' = ArchiveRequest(target_date, day_of_month,
                                 list_stats_receiver_open_ids(records))
        /\ resp' = [level |-> IF r.ran THEN "archived" ELSE "skipped",
                    start_date |-> r.start_date, end_date |-> r.end_date,
                    user_count |-> r.user_count, total_fee |-> r.total_fee]
        /\ plan' = NoPlan
        /\ UNCHANGED <<store, last, rules, now, cache>>

\* The dates the job is run for: settlement dates and other dates around
\* the rows of the table, of months with and without a day 31.
ArchiveRunDates ==
    {Date(2026, 1, 15), Date(2026, 1, 31), Date(2026, 2, 14), Date(2026, 2, 15),
     Date(2026, 2, 27), Date(2026, 2, 28), Date(2026, 3, 15), Date(2026, 3, 31),
     Date(2026, 4, 30)}

\* The stats_receivers tables of the archive job.
ArchiveReceiverTables == {<<>>, <<"ou_2">>, <<"ou_2", "ou_1">>}

ArchiveMealFeesStep ==
    \E d \in ArchiveRunDates, k \in {15, 31}, records \in ArchiveReceiverTables :
        ArchiveMealFees(d, k, records)

NextArchive == ArchiveMealFeesStep \/ ExternalRowStep

\* The archive job and the rows it sums.
SpecArchive == InitRepo /\ [][NextArchive]_vars

\* ------------------------------------------------------------ cron events
\* The times of a day, in ticks, and the days of the windows.
CronDayLen == 3
MaxCronDay == 2

\* A datetime of the runtime timezone: a day and a time of that day.
DateTime(day, tick) == [date |-> day, time |-> tick]

\* datetime comparison in one timezone.
DateTimeLeq(a, b) == a.date < b.date \/ (a.date = b.date /\ a.time <= b.time)
DateTimeLess(a, b) == a.date < b.date \/ (a.date = b.date /\ a.time < b.time)

\* The values of fee_archive_time.
FeeArchiveTimes == {0, CronDayLen - 1}

\* The schedules the configuration accepts: both cutoffs plus the offset
\* stay within the day (validate_stat_schedule_range).
CronSchedules ==
    {sc \in [send_time : 0 .. CronDayLen - 1, lunch_cutoff : 0 .. CronDayLen - 1,
              dinner_cutoff : 0 .. CronDayLen - 1, send_stat_offset : 0 .. 1,
              fee_archive_time : FeeArchiveTimes] :
        /\ sc.lunch_cutoff + sc.send_stat_offset < CronDayLen
        /\ sc.dinner_cutoff + sc.send_stat_offset < CronDayLen}

\* _time_with_offset, for a sum that stays within the day.
_time_with_offset(base, offset) == base + offset

CronJobSpec(job_id, tick) == [job_id |-> job_id, time |-> tick]

\* build_cron_job_specs: the four jobs, in this order.
build_cron_job_specs(schedule) ==
    <<CronJobSpec("daily_send_cards", schedule.send_time),
      CronJobSpec("daily_lunch_stats",
                  _time_with_offset(schedule.lunch_cutoff, schedule.send_stat_offset)),
      CronJobSpec("daily_dinner_stats",
                  _time_with_offset(schedule.dinner_cutoff, schedule.send_stat_offset)),
      CronJobSpec("daily_fee_archive", schedule.fee_archive_time)>>

\* The place of a job id in the order of strings.
JobIdRank(job_id) ==
    IF job_id = "daily_dinner_stats" THEN 1
    ELSE IF job_id = "daily_fee_archive" THEN 2
    ELSE IF job_id = "daily_lunch_stats" THEN 3
    ELSE 4

\* The sort key (event.trigger_at, event.spec.job_id), compared.
EventKeyLess(a, b) ==
    \/ DateTimeLess(a.trigger_at, b.trigger_at)
    \/ a.trigger_at = b.trigger_at /\ JobIdRank(a.job_id) < JobIdRank(b.job_id)

\* events.sort(key=...): a stable insertion of each event in turn.
RECURSIVE SortEvents(_)
SortEvents(events) ==
    IF events = <<>> THEN <<>>
    ELSE LET sorted == SortEvents(SubSeq(events, 1, Len(events) - 1))
             e == events[Len(events)]
             before == SelectSeq(sorted, LAMBDA x : ~EventKeyLess(e, x))
             after == SelectSeq(sorted, LAMBDA x : EventKeyLess(e, x))
         IN  before \o <<e>> \o after

\* The loop over the days of the window and the job specs: the events
\* from a day on, before they are sorted.
RECURSIVE CronFold(_, _, _, _, _)
CronFold(job_specs, current_date, start_at, end_at, events) ==
    IF current_date > end_at.date THEN events
    ELSE LET hits == SelectSeq(job_specs,
                        LAMBDA spec :
                            /\ DateTimeLeq(start_at, DateTime(current_date, spec.time))
                            /\ DateTimeLeq(DateTime(current_date, spec.time), end_at))
         IN  CronFold(job_specs, current_date + 1, start_at, end_at,
                      events \o [k \in 1 .. Len(hits) |->
                                    [trigger_at |-> DateTime(current_date, hits[k].time),
                                     job_id |-> hits[k].job_id]])

\* Events of a window whose end is left out.
ListCronEventsHalfOpen(schedule, start_at, end_at) ==
    IF DateTimeLess(end_at, start_at) THEN [raised |-> TRUE, events |-> <<>>]
    ELSE [raised |-> FALSE,
          events |-> SelectSeq(SortEvents(CronFold(build_cron_job_specs(schedule),
                                                   start_at.date, start_at, end_at, <<>>)),
                               LAMBDA e : e.trigger_at # end_at)]

\* list_cron_trigger_events.
list_cron_trigger_events(schedule, start_at, end_at) ==
    IF DateTimeLess(end_at, start_at) THEN [raised |-> TRUE, events |-> <<>>]
    ELSE [raised |-> FALSE,
          events |-> SortEvents(CronFold(build_cron_job_specs(schedule),
                                         start_at.date, start_at, end_at, <<>>))]

CronInstants == {DateTime(d, t) : d \in 1 .. MaxCronDay, t \in 0 .. CronDayLen - 1}

\* The request record of a listing: the schedule and the window.
CronRequest(schedule, start_at, end_at) ==
    [operator |-> None, target_open_id |-> None, target_date |-> BadDate,
     action |-> "list_cron_trigger_events", toggle_meal |-> None, meals |-> {},
     schedule |-> schedule, start_at |-> start_at, end_at |-> end_at]

InitCron ==
    /\ store = <<>>
    /\ last = NoCall
    /\ rules = <<>>
    /\ now = StartNow
    /\ cache = NoCache
    /\ act \in {CronRequest(sc, a, b) : sc \in CronSchedules, a \in CronInstants,
                                         b \in CronInstants}
    /\ resp = NoResponse
    /\ calls = <<>>
    /\ plan = NoPlan
    /\ outbox = <<>>

\* The listing of the request's window under the request's schedule.
ListCronStep ==
    /\ resp' = [level |-> "listed"]
                 @@ list_cron_trigger_events(act.schedule, act.start_at, act.end_at)
    /\ UNCHANGED <<store, last, rules, now, cache, act, calls, plan, outbox>>

NextCron == ListCronStep

\* The listing on its own, over schedules and windows.
SpecCron == InitCron /\ [][NextCron]_vars

\* ------------------------------------------------------ card action toasts
\* A date cell that _to_date cannot convert: digits beyond the range of
\* datetime.fromtimestamp (or a digit such as a superscript two, which
\* int() refuses).  The conversion raises ValueError.
MalformedDate == BadDate - 1

\* _to_date: the date of a cell, or the ValueError of the conversion.
_to_date(value) == [raised |-> value = MalformedDate, date |-> value]

MsgUpdateFailed == "reservation update failed"
MsgOutOfRange == "year is out of range"

\* The first call of an operation among the calls, 0 when there is none.
FirstCall(cs, op) ==
    IF \E k \in 1 .. Len(cs) : cs[k].op = op
    THEN CHOOSE k \in 1 .. Len(cs) :
            cs[k].op = op /\ \A j \in 1 .. (k - 1) : cs[j].op # op
    ELSE 0

Toast(s, c, level, content, cs, raised) ==
    [store |-> s, cache |-> c, level |-> level, content |-> content, calls |-> cs,
     raised |-> raised]

\* handle_card_action: the toast of _process_action; the message of a
\* ValueError raised under it; the fixed text for any other exception.
\* The first read of the meal rows raises FeishuApiError when list_records
\* fails, and ValueError when a date cell of the table cannot be converted.
handle_card_action(s, c, t, table, req, env, list_fails) ==
    LET r == _process_action(s, c, t, table, req, env)
        k == FirstCall(r.calls, "list_user_meal_rows")
    IN  IF k # 0 /\ list_fails
        THEN Toast(s, r.cache, "error", MsgUpdateFailed, SubSeq(r.calls, 1, k), "list_records")
        ELSE IF k # 0 /\ \E i \in 1 .. Len(s) : _to_date(s[i].date).raised
        THEN Toast(s, r.cache, "error", MsgOutOfRange, SubSeq(r.calls, 1, k), "_to_date")
        ELSE Toast(r.store, r.cache, r.level, r.content, r.calls,
                   IF r.content = MsgCutoff THEN "_apply_selection" ELSE "none")

\* One card action, from the event to the toast.
HandleCardAction(req, env, list_fails) ==
    \E r \in {handle_card_action(store, cache, now, rules, req, env, list_fails)} :
        /\ Len(r.store) <= MaxRows
        /\ store' = r.store
        /\ cache' = r.cache
        /\ act' = req
        /\ resp' = [level |-> r.level, content |-> r.content, raised |-> r.raised]
        /\ calls' = r.calls
        /\ UNCHANGED <<last, rules, now, plan, outbox>>

\* The owner's toggles, submit and refresh, and another user's refresh.
ToastRequests ==
    {Request("ou_1", "ou_1", d, "toggle_meal", x, {}) : d \in CallDates, x \in Meals}
    \cup {Request("ou_1", "ou_1", d, "submit_reservation", None, {LUNCH}) : d \in CallDates}
    \cup {Request(o, "ou_1", d, "refresh_state", None, {}) :
            o \in {"ou_1", "ou_2"}, d \in CallDates}

HandleCardActionStep ==
    \E req \in ToastRequests, list_fails \in BOOLEAN :
        HandleCardAction(req, WorkingEnv, list_fails)

\* Another writer adds a lunch row of the card's user: of day 1, or with
\* a date cell that cannot be converted.
ToastRowStep ==
    \E d \in CallDates \cup {MalformedDate} :
        ExternalAppend(d, "ou_1", LUNCH, LunchPrice, TRUE)

NextToast == HandleCardActionStep \/ Tick \/ ToastRowStep

\* Card actions and what their handler answers when something raises.
SpecToast == Init /\ [][NextToast]_vars

\* ------------------------------------------------------- aborted submits
\* A submit_reservation of the card's owner during which the record store
\* starts to fail after the first write of _apply_selection: the second
\* changed meal is to be reserved, its create_record raises FeishuApiError
\* (after update_record, if a record id is known, has failed and was
\* caught), and handle_card_action answers the fixed error toast.
\* applies: the action gets that far, with two changed meals, both editable.
submit_aborted(s, c, t, table, req, env) ==
    Only({
        LET selected_before == resolved.selected
            selected == IF req.meals # {} THEN req.meals \cap allowed ELSE selected_before
            changed_meals == {m \in allowed : (m \in selected_before) # (m \in selected)}
            ms == InOrder(env.order, changed_meals)
            user == list_user_profiles[_load_user(req.operator)]
            first == ApplyFold(IF ms = <<>> THEN <<>> ELSE <<ms[1]>>, sync.store, req.target_date, req.operator,
                               selected, _build_meal_prices(user, allowed),
                               resolved.meal_record_ids, <<>>, FALSE)
        IN  [applies |-> /\ Len(ms) = 2
                         /\ FirstNotEditable(ms, t, req.target_date) = None
                         /\ ms[2] \in selected,
             store |-> first.store,
             cache |-> lookup.cache,
             calls |-> <<ReadCall("list_user_profiles")>>
                       \o (IF lookup.fetched THEN <<ReadCall("list_schedule_rules")>>
                           ELSE <<>>)
                       \o <<ReadCall("list_user_meal_rows")>> \o sync.calls \o first.calls
                       \o (IF Len(ms) = 2
                           THEN <<WriteCall("upsert_meal_record", ms[2],
                                            resolved.meal_record_ids[ms[2]], "raised")>>
                           ELSE <<>>),
             level |-> "error",
             content |-> MsgUpdateFailed] :
        lookup \in {_list_schedule_rules(c, t, table, FALSE)},
        allowed \in {decide(req.target_date, _list_schedule_rules(c, t, table, FALSE).rules)},
        sync \in {_sync_disallowed_meal_rows(
                      s, req.target_date, req.operator,
                      decide(req.target_date, _list_schedule_rules(c, t, table, FALSE).rules),
                      list_user_meal_rows(s, req.target_date, req.operator), env)},
        resolved \in {_resolve_selected_from_rows(
                          _sync_disallowed_meal_rows(
                              s, req.target_date, req.operator,
                              decide(req.target_date,
                                     _list_schedule_rules(c, t, table, FALSE).rules),
                              list_user_meal_rows(s, req.target_date, req.operator),
                              env).rows,
                          decide(req.target_date,
                                 _list_schedule_rules(c, t, table, FALSE).rules))}})

\* One submit that the failing store aborts, from the event to the toast.
SubmitAborted(req, env) ==
    \E r \in {submit_aborted(store, cache, now, rules, req, env)} :
        /\ r.applies
        /\ store' = r.store
        /\ cache' = r.cache
        /\ act' = req
        /\ resp' = [level |-> r.level, content |-> r.content, raised |-> "create_record"]
        /\ calls' = r.calls
        /\ UNCHANGED <<last, rules, now, plan, outbox>>

\* The owner's submits of day 1: one meal or both.
SubmitRequests ==
    {Request("ou_1", "ou_1", d, "submit_reservation", None, f) :
        d \in CallDates, f \in (SUBSET Meals) \ {{}}}

SubmitAbortedStep ==
    \E req \in SubmitRequests, env \in Envs :
        ~env.fails /\ SubmitAborted(req, env)

\* The same submits while the store works.
SubmitStep ==
    \E req \in SubmitRequests, env \in Envs :
        ~env.fails /\ HandleCardAction(req, env, FALSE)

NextAbort == SubmitAbortedStep \/ SubmitStep \/ Tick

\* Submits of one or two meals, with and without a failure of the store
\* between the two writes.
SpecAbort == Init /\ [][NextAbort]_vars

\* ------------------------------------------------------- today's card
MsgNoCardToday == "not in the sending range"

\* send_card_to_user_today: a text to a user outside the roster, a text on
\* a day without meals (the rules as a lookup that is not forced gives
\* them), else today's card by _send_card_to_user.
send_card_to_user_today(s, c, t, table, open_id, order) ==
    LET today == TodayOf(t)
        i == _load_user(open_id)
        load == JobCall("list_user_profiles", None, None, NoId, "read")
    IN  IF i = 0
        THEN JobOutcome(s, c, NoPlan, <<load>>,
                        <<[receive_id |-> open_id, text |-> MsgNotInRoster]>>, {}, FALSE)
        ELSE Only({
            LET p == DailyMealPlan(today, decide(today, lookup.rules))
                cs0 == <<load>> \o (IF lookup.fetched
                                    THEN <<JobCall("list_schedule_rules", None, None, NoId,
                                                   "read")>>
                                    ELSE <<>>)
            IN  IF p.meals = {}
                THEN JobOutcome(s, lookup.cache, p, cs0,
                                <<[receive_id |-> open_id, text |-> MsgNoCardToday]>>, {}, FALSE)
                ELSE Only({JobOutcome(w.store, lookup.cache, p, cs0 \o w.calls, w.sent, {},
                                      w.raised) :
                           w \in {_send_card_to_user(s, list_user_profiles[i], today, p.meals,
                                                     order, "none")}}) :
            lookup \in {_list_schedule_rules(c, t, table, FALSE)}})

\* handle_message_event: a text message of a user sends them today's card.
SendCardToday(open_id) ==
    \E r \in {send_card_to_user_today(store, cache, now, rules, open_id, <<LUNCH, DINNER>>)} :
        /\ store' = r.store
        /\ cache' = r.cache
        /\ plan' = r.plan
        /\ calls' = r.calls
        /\ outbox' = r.sent
        /\ act' = Request(open_id, open_id, TodayOf(now), "send_card_to_user_today", None, {})
        /\ resp' = [level |-> "done", content |-> "none", raised |-> "none"]
        /\ UNCHANGED <<last, rules, now>>

\* Messages arrive from day 1 on (day 0 is the model's value for no date).
SendCardTodayStep ==
    \E open_id \in Users :
        /\ TodayOf(now) # BadDate
        /\ SendCardToday(open_id)

\* The card actions of the owner, without a failure.
TodayCardActionStep ==
    \E req \in ToastRequests :
        /\ req.operator = req.target_open_id
        /\ HandleCardAction(req, WorkingEnv, FALSE)

\* Another writer reserves a meal of day 1 for the card's user.
TodayRowStep ==
    \E m \in Meals : ExternalAppend(1, "ou_1", m, PriceOf(m), TRUE)

NextToday == SendCardTodayStep \/ TodayCardActionStep \/ Tick \/ TodayRowStep

\* What a user triggers, by text message and by card action, through a day.
SpecToday == Init /\ [][NextToday]_vars

\* -------------------------------------------------------- the rules cache
\* build_cron_preview_snapshot: the rules of a lookup that is not forced,
\* the number of enabled users and of stats receivers, and per target date
\* the number of matching rules and the meals decided.  records is the
\* stats_receivers table as read.
build_cron_preview_snapshot(c, t, table, target_dates, records) ==
    LET lookup == _list_schedule_rules(c, t, table, FALSE)
        rs == lookup.rules
    IN  [schedule_rules_count |-> Len(rs),
         enabled_user_count |-> Cardinality(EnabledUsers),
         stats_receiver_count |-> Len(list_stats_receiver_open_ids(records)),
         matched_rule_count_by_date |->
             [d \in target_dates |->
                 Cardinality({i \in 1 .. Len(rs) :
                                 rs[i].start_date <= d /\ d <= rs[i].end_date})],
         rules_by_date |-> [d \in target_dates |-> decide(d, rs)],
         cache |-> lookup.cache,
         calls |-> (IF lookup.fetched
                    THEN <<JobCall("list_schedule_rules", None, None, NoId, "read")>>
                    ELSE <<>>)
                   \o <<JobCall("list_user_profiles", None, None, NoId, "read"),
                        JobCall("list_stats_receiver_open_ids", None, None, NoId, "read")>>]

\* preview_daily_cards over a snapshot: no meals for the date (by an empty
\* rule, or by the weekend default), no enabled user, or the job would run.
preview_daily_cards(snapshot, target_date) ==
    LET meals == IF target_date \in DOMAIN snapshot.rules_by_date
                 THEN snapshot.rules_by_date[target_date] ELSE {}
        matched_rule_count == IF target_date \in DOMAIN snapshot.matched_rule_count_by_date
                              THEN snapshot.matched_rule_count_by_date[target_date] ELSE 0
    IN  IF meals = {}
        THEN [will_execute |-> FALSE,
              detail |-> IF matched_rule_count > 0 THEN "empty rule" ELSE "weekend default"]
        ELSE IF snapshot.enabled_user_count <= 0
        THEN [will_execute |-> FALSE, detail |-> "no enabled user"]
        ELSE [will_execute |-> TRUE, detail |-> "send"]

\* preview_stats over a snapshot: the job sends when it has a receiver.
preview_stats(snapshot, meal) ==
    IF snapshot.stats_receiver_count <= 0
    THEN [will_execute |-> FALSE, detail |-> "no receiver"]
    ELSE [will_execute |-> TRUE, detail |-> "send"]

\* The request record of a lookup of the schedule rules.
LookupRequest(force_refresh) ==
    [operator |-> None, target_open_id |-> None, target_date |-> BadDate,
     action |-> "_list_schedule_rules", toggle_meal |-> None, meals |-> {},
     force_refresh |-> force_refresh]

\* One call of _list_schedule_rules.
Lookup(force_refresh) ==
    \E r \in {_list_schedule_rules(cache, now, rules, force_refresh)} :
        /\ cache' = r.cache
        /\ act' = LookupRequest(force_refresh)
        /\ resp' = [level |-> "rules", rules |-> r.rules]
        /\ calls' = IF r.fetched THEN <<ReadCall("list_schedule_rules")>> ELSE <<>>
        /\ UNCHANGED <<store, last, rules, now, plan, outbox>>

LookupStep == \E force_refresh \in BOOLEAN : Lookup(force_refresh)

\* The meal_schedule tables of the cache model: those of RuleTables and a
\* table whose one rule offers the dinner on day 2, a Saturday.
CacheRuleTables ==
    RuleTables \cup {<<[start_date |-> 2, end_date |-> 2, meals |-> {DINNER}]>>}

\* An administrator edits the meal_schedule table.
RuleChangeStep ==
    /\ rules' \in CacheRuleTables \ {rules}
    /\ act' = NoRequest
    /\ resp' = NoResponse
    /\ calls' = <<>>
    /\ plan' = NoPlan
    /\ outbox' = <<>>
    /\ UNCHANGED <<store, last, now, cache>>

\* No send of the daily job fails.
NoFaults == [i \in 1 .. Len(DailyProfiles) |-> "none"]

\* The daily job, without a failure.
CacheSendStep ==
    \E d \in Dates : SendDailyCards(d, WorkingEnv.order, NoFaults)

\* The request record of a preview: the job previewed, its date or meal.
PreviewRequest(action, target_date, meal) ==
    [operator |-> None, target_open_id |-> None, target_date |-> target_date,
     action |-> action, toggle_meal |-> meal, meals |-> {}]

\* preview_daily_cards(target_date=d) without a snapshot: the snapshot is
\* built for that date.
PreviewDailyCards(target_date, records) ==
    \E snapshot \in {build_cron_preview_snapshot(cache, now, rules, {target_date}, records)} :
        /\ cache' = snapshot.cache
        /\ calls' = snapshot.calls
        /\ act' = PreviewRequest("preview_daily_cards", target_date, None)
        /\ resp' = [level |-> "preview",
                    will_execute |-> preview_daily_cards(snapshot, target_date).will_execute,
                    detail |-> preview_daily_cards(snapshot, target_date).detail]
        /\ plan' = NoPlan
        /\ outbox' = <<>>
        /\ UNCHANGED <<store, last, rules, now>>

\* preview_stats(meal=m) without a snapshot: the snapshot is built for no date.
PreviewStats(meal, records) ==
    \E snapshot \in {build_cron_preview_snapshot(cache, now, rules, {}, records)} :
        /\ cache' = snapshot.cache
        /\ calls' = snapshot.calls
        /\ act' = PreviewRequest("preview_stats", BadDate, meal)
        /\ resp' = [level |-> "preview",
                    will_execute |-> preview_stats(snapshot, meal).will_execute,
                    detail |-> preview_stats(snapshot, meal).detail]
        /\ plan' = NoPlan
        /\ outbox' = <<>>
        /\ UNCHANGED <<store, last, rules, now>>

PreviewDailyCardsStep ==
    \E d \in Dates, records \in ReceiverTables : PreviewDailyCards(d, records)

PreviewStatsStep ==
    \E m \in Meals, records \in ReceiverTables : PreviewStats(m, records)

InitCache ==
    /\ store = <<>>
    /\ last = NoCall
    /\ rules \in CacheRuleTables
    /\ now = StartNow
    /\ cache = NoCache
    /\ act = NoRequest
    /\ resp = NoResponse
    /\ calls = <<>>
    /\ plan = NoPlan
    /\ outbox = <<>>

NextCache ==
    \/ LookupStep
    \/ RuleChangeStep
    \/ Tick
    \/ CacheSendStep
    \/ PreviewDailyCardsStep
    \/ PreviewStatsStep

\* The rules cache under lookups, the daily job, previews and rule edits.
SpecCache == InitCache /\ [][NextCache]_vars

\* ------------------------------------------------- concurrent rule lookups
\* Lookups run on several threads at once: card actions and messages on the
\* event threads (asyncio.to_thread), the jobs on the scheduler's thread.
\* _list_schedule_rules takes no lock, so its statements interleave.
MaxLookups == 2

Threads == {"t1", "t2"}

\* A thread outside _list_schedule_rules.
IdleThread ==
    [pc |-> "idle", force_refresh |-> FALSE, now |-> 0, rules |-> <<>>, refresh |-> 0,
     result |-> <<>>]

\* The cache with, for each of its two attributes, the refresh that
\* assigned it (0: none).
RaceCache(set, rs, rules_of, expires_at, expiry_of) ==
    [set |-> set, rules |-> rs, expires_at |-> expires_at,
     rules_of |-> rules_of, expiry_of |-> expiry_of]

\* The threads, and how many lookups were begun and how many fetched.
RaceAct(threads) ==
    [operator |-> None, target_open_id |-> None, target_date |-> BadDate,
     action |-> "concurrent_lookups", toggle_meal |-> None, meals |-> {},
     threads |-> threads]

RaceResp(begun, refreshes) == [level |-> "lookups", begun |-> begun, refreshes |-> refreshes]

RaceStep(th, thread, c, begun, refreshes) ==
    /\ act' = RaceAct([act.threads EXCEPT ![th] = thread])
    /\ cache' = c
    /\ resp' = RaceResp(begun, refreshes)
    /\ UNCHANGED <<store, last, rules, now, calls, plan, outbox>>

\* now = self._now()
LookupBegin(th, force_refresh) ==
    /\ act.threads[th].pc = "idle"
    /\ resp.begun < MaxLookups
    /\ RaceStep(th, [IdleThread EXCEPT !.pc = "check", !.force_refresh = force_refresh,
                                       !.now = now],
                cache, resp.begun + 1, resp.refreshes)

\* cache_available = ...; if force_refresh or not cache_available:
LookupCheck(th) ==
    LET thread == act.threads[th]
        cache_available == cache.set /\ thread.now < cache.expires_at
    IN  /\ thread.pc = "check"
        /\ RaceStep(th, [thread EXCEPT !.pc = IF thread.force_refresh \/ ~cache_available
                                              THEN "fetch" ELSE "return"],
                    cache, resp.begun, resp.refreshes)

\* rules = self._repository.list_schedule_rules()
LookupFetch(th) ==
    LET thread == act.threads[th]
    IN  /\ thread.pc = "fetch"
        /\ RaceStep(th, [thread EXCEPT !.pc = "store_rules",
                                       !.rules = list_schedule_rules(rules),
                                       !.refresh = resp.refreshes + 1],
                    cache, resp.begun, resp.refreshes + 1)

\* self._schedule_rules_cache = rules
LookupStoreRules(th) ==
    LET thread == act.threads[th]
    IN  /\ thread.pc = "store_rules"
        /\ RaceStep(th, [thread EXCEPT !.pc = "store_expiry"],
                    [cache EXCEPT !.set = TRUE, !.rules = thread.rules,
                                  !.rules_of = thread.refresh],
                    resp.begun, resp.refreshes)

\* self._schedule_rules_cache_expires_at = now + timedelta(seconds=ttl)
LookupStoreExpiry(th) ==
    LET thread == act.threads[th]
    IN  /\ thread.pc = "store_expiry"
        /\ RaceStep(th, [thread EXCEPT !.pc = "return"],
                    [cache EXCEPT !.expires_at = thread.now + CacheTtl,
                                  !.expiry_of = thread.refresh],
                    resp.begun, resp.refreshes)

\* return list(self._schedule_rules_cache or [])
LookupReturn(th) ==
    LET thread == act.threads[th]
    IN  /\ thread.pc = "return"
        /\ RaceStep(th, [thread EXCEPT !.pc = "idle", !.result = cache.rules],
                    cache, resp.begun, resp.refreshes)

LookupBeginStep == \E th \in Threads, force_refresh \in BOOLEAN : LookupBegin(th, force_refresh)
LookupCheckStep == \E th \in Threads : LookupCheck(th)
LookupFetchStep == \E th \in Threads : LookupFetch(th)
LookupStoreRulesStep == \E th \in Threads : LookupStoreRules(th)
LookupStoreExpiryStep == \E th \in Threads : LookupStoreExpiry(th)
LookupReturnStep == \E th \in Threads : LookupReturn(th)

\* The clock moves while lookups are under way.
RaceTick ==
    /\ now < MaxNow
    /\ now' = now + 1
    /\ UNCHANGED <<store, last, rules, cache, act, resp, calls, plan, outbox>>

\* An administrator edits the meal_schedule table while lookups are under way.
RaceRuleChangeStep ==
    /\ rules' \in CacheRuleTables \ {rules}
    /\ UNCHANGED <<store, last, now, cache, act, resp, calls, plan, outbox>>

InitRace ==
    /\ store = <<>>
    /\ last = NoCall
    /\ rules \in CacheRuleTables
    /\ now = StartNow
    /\ cache = RaceCache(FALSE, <<>>, 0, 0, 0)
    /\ act = RaceAct([th \in Threads |-> IdleThread])
    /\ resp = RaceResp(0, 0)
    /\ calls = <<>>
    /\ plan = NoPlan
    /\ outbox = <<>>

NextRace ==
    \/ LookupBeginStep
    \/ LookupCheckStep
    \/ LookupFetchStep
    \/ LookupStoreRulesStep
    \/ LookupStoreExpiryStep
    \/ LookupReturnStep
    \/ RaceTick
    \/ RaceRuleChangeStep

\* Lookups of the rules on two threads.
SpecRace == InitRace /\ [][NextRace]_vars

\* ------------------------------------------------------ concurrent toggles
\* Two toggle_meal actions of ou_1 for the lunch of day 1 run on two threads.
\* _process_action takes no lock: each action reads the user's rows, and
\* later writes what it decided on the rows it read.
MaxRounds == 2

\* A thread before its card action.
ToggleThread == [pc |-> "idle", rows |-> <<>>, allowed |-> {}]

\* The threads, the round, and the effective status the lunch had when the
\* round began.
ToggleAct(threads, round, before) ==
    [operator |-> "ou_1", target_open_id |-> "ou_1", target_date |-> 1,
     action |-> "concurrent_toggles", toggle_meal |-> LUNCH, meals |-> {},
     threads |-> threads, round |-> round, before |-> before]

\* allowed = self._allowed_meals_for_date(target_date); rows =
\* list_user_meal_rows(...); rows = self._sync_disallowed_meal_rows(...)
ToggleRead(th) ==
    /\ act.threads[th].pc = "idle"
    /\ \E lookup \in {_list_schedule_rules(cache, now, rules, FALSE)} :
       \E synced \in {_sync_disallowed_meal_rows(
                          store, 1, "ou_1", decide(1, lookup.rules),
                          list_user_meal_rows(store, 1, "ou_1"),
                          [order |-> <<LUNCH, DINNER>>, fails |-> FALSE])} :
           /\ store' = synced.store
           /\ cache' = lookup.cache
           /\ act' = [act EXCEPT !.threads[th] =
                          [pc |-> "write", rows |-> synced.rows,
                           allowed |-> decide(1, lookup.rules)]]
    /\ UNCHANGED <<last, rules, now, resp, calls, plan, outbox>>

\* selected_before, meal_record_ids = _resolve_selected_from_rows(rows);
\* the toggle; _apply_selection(changed_meals = {toggle}).
ToggleWrite(th) ==
    LET thread == act.threads[th]
        resolved == _resolve_selected_from_rows(thread.rows, thread.allowed)
        selected == IF LUNCH \in resolved.selected THEN resolved.selected \ {LUNCH}
                    ELSE resolved.selected \cup {LUNCH}
    IN  /\ thread.pc = "write"
        /\ LUNCH \in thread.allowed
        /\ \E r \in {_apply_selection(store, now, 1, "ou_1", {LUNCH}, selected,
                                      _build_meal_prices(list_user_profiles[1], thread.allowed),
                                      resolved.meal_record_ids,
                                      [order |-> <<LUNCH, DINNER>>, fails |-> FALSE])} :
               /\ ~r.raised
               /\ store' = r.store
               /\ calls' = r.calls
        /\ act' = [act EXCEPT !.threads[th] = [thread EXCEPT !.pc = "done"]]
        /\ UNCHANGED <<last, rules, now, cache, resp, plan, outbox>>

ToggleReadStep == \E th \in Threads : ToggleRead(th)
ToggleWriteStep == \E th \in Threads : ToggleWrite(th)

\* Both actions have returned; the user clicks twice again.
ToggleRoundStep ==
    /\ \A th \in Threads : act.threads[th].pc = "done"
    /\ act.round < MaxRounds
    /\ act' = ToggleAct([th \in Threads |-> ToggleThread], act.round + 1,
                        EffectiveReserved(store, 1, "ou_1", LUNCH))
    /\ calls' = <<>>
    /\ UNCHANGED <<store, last, rules, now, cache, resp, plan, outbox>>

\* The card is of day 1 and the clock is at the eve of it; the table is
\* empty or holds the user's lunch row, reserved or cancelled.
InitToggle ==
    /\ store \in {<<>>} \cup {create_record(<<>>, _meal_payload(1, "ou_1", LUNCH,
                                   IF st THEN LunchPrice ELSE ZeroPrice, st)) : st \in BOOLEAN}
    /\ last = NoCall
    /\ rules \in RuleTables
    /\ now = StartNow
    /\ cache = NoCache
    /\ act = ToggleAct([th \in Threads |-> ToggleThread], 1,
                       EffectiveReserved(store, 1, "ou_1", LUNCH))
    /\ resp = NoResponse
    /\ calls = <<>>
    /\ plan = NoPlan
    /\ outbox = <<>>

NextToggle == ToggleReadStep \/ ToggleWriteStep \/ ToggleRoundStep

\* Two toggles of one meal on two threads, round after round.
SpecToggle == InitToggle /\ [][NextToggle]_vars

\* ---------------------------------------------------- card action properties
\* The repository writes among the calls of the last card action.
WriteCalls == {i \in 1 .. Len(calls) :
                 calls[i].op \in {"upsert_meal_record", "cancel_meal_record"}}

CutoffOf(meal) == IF meal = LUNCH THEN LunchCutoff ELSE DinnerCutoff

\* The rule of the claim: a later day, or today before the meal's cutoff.
BeforeCutoff(meal) ==
    \/ act.target_date > TodayOf(now)
    \/ act.target_date = TodayOf(now) /\ TimeOf(now) < CutoffOf(meal)

\* C1: a toggle or submit whose changed meals include one that is not
\* editable ends in an error naming such a meal, and no upsert or cancel
\* was issued for any changed meal.
C1_CutoffAllOrNothing ==
    (/\ act.action \in {"toggle_meal", "submit_reservation"}
     /\ \E m \in resp.changed : ~_is_editable(now, act.target_date, m)) =>
        /\ resp.level = "error"
        /\ resp.content = MsgCutoff
        /\ resp.meal \in resp.changed
        /\ ~_is_editable(now, act.target_date, resp.meal)
        /\ \A i \in WriteCalls : calls[i].meal \notin resp.changed

\* A submit that changed both meals, one still editable, one past its cutoff.
C1_Witness ==
    /\ act.action = "submit_reservation"
    /\ resp.changed = {LUNCH, DINNER}
    /\ \E m \in resp.changed : _is_editable(now, act.target_date, m)
    /\ resp.content = MsgCutoff

\* C2: a card action that changes meals is applied iff every changed meal is
\* on a later day, or on today strictly before its cutoff; otherwise it is
\* rejected with the cutoff error and no changed meal is written.
C2_EditableRule ==
    (act.action \in {"toggle_meal", "submit_reservation"} /\ resp.changed # {}) =>
        IF \A m \in resp.changed : BeforeCutoff(m)
        THEN /\ resp.content # MsgCutoff
             /\ \A m \in resp.changed : \E i \in WriteCalls : calls[i].meal = m
        ELSE /\ resp.content = MsgCutoff
             /\ ~BeforeCutoff(resp.meal)
             /\ \A i \in WriteCalls : calls[i].meal \notin resp.changed

\* A dinner toggle accepted on the day itself, one tick before the dinner cutoff.
C2_Witness ==
    /\ act.action = "toggle_meal"
    /\ resp.changed = {DINNER}
    /\ act.target_date = TodayOf(now)
    /\ TimeOf(now) + 1 = DinnerCutoff
    /\ \E i \in WriteCalls : calls[i].meal = DINNER

\* C3: a card action without operator, or whose operator is not the
\* payload's target_open_id, gets the owner-only error, no card, and makes
\* no repository call at all.
C3_OwnerOnly ==
    (act.action # "none" /\ (act.operator = None \/ act.operator # act.target_open_id)) =>
        /\ resp.level = "error"
        /\ resp.content = MsgOwnerOnly
        /\ ~resp.card.has
        /\ calls = <<>>

\* Another user's card was acted on while the owner holds rows.
C3_Witness ==
    /\ act.action = "toggle_meal"
    /\ act.operator = "ou_2" /\ act.target_open_id = "ou_1"
    /\ KeyRowsOf(store, act.target_date, act.target_open_id) # {}
    /\ resp.content = MsgOwnerOnly

\* C10 (as claimed): a refresh_state action issues no write to the table.
C10_Original ==
    act.action = "refresh_state" => WriteCalls = {}

\* C10 (amended): a refresh_state action issues no upsert and creates no
\* row; its only writes are the preamble's direct cancels of rows that were
\* reserved for meals the schedule does not allow on the date; a cancel the
\* store accepts leaves the row cancelled, one it rejects leaves the table
\* as it was.
C10_RefreshOnlyRepairs ==
    [][act'.action = "refresh_state" =>
        /\ Len(store') = Len(store)
        /\ \A i \in 1 .. Len(calls') :
              calls'[i].op \in {"upsert_meal_record", "cancel_meal_record"} =>
                /\ calls'[i].op = "cancel_meal_record"
                /\ calls'[i].mode \in {"direct_update", "direct_failed"}
                /\ calls'[i].meal \notin decide(act'.target_date, rules)
                /\ EffectiveReserved(store, act'.target_date, act'.operator, calls'[i].meal)
                /\ calls'[i].mode = "direct_update" =>
                      ~EffectiveReserved(store', act'.target_date, act'.operator,
                                         calls'[i].meal)
                /\ calls'[i].mode = "direct_failed" => store' = store]_vars

\* A refresh that cancelled the reserved row of a meal no longer allowed.
C10_Witness ==
    /\ act.action = "refresh_state"
    /\ decide(act.target_date, rules) = {LUNCH}
    /\ \E i \in WriteCalls : calls[i].meal = DINNER

\* The card action's response is one of the errors raised before the rows
\* are read: owner check, date parse, roster lookup.
EarlyErrors == {MsgOwnerOnly, MsgBadDate, MsgNotInRoster}
\* The validation and cutoff errors of a card action.
ActionErrors == EarlyErrors \cup {MsgBadToggle, MsgBadAction, MsgCutoff}

\* C11 (as claimed): a card action that ends in a validation error or a
\* cutoff violation leaves the reservation table as it was.
C11_Original ==
    [][resp'.content \in ActionErrors => store' = store]_vars

\* C11 (amended): a card action that ends in the owner, date or roster
\* error writes nothing; one that ends in the unsupported-action,
\* bad-toggle or cutoff error has passed the preamble, so it creates no
\* row and changes only rows of the user and date that were reserved for a
\* meal the schedule does not allow, which it cancels by direct update.
C11_ErrorsWriteOnlyRepairs ==
    [][resp'.content \in ActionErrors =>
        /\ resp'.level = "error"
        /\ resp'.content \in EarlyErrors =>
              /\ store' = store
              /\ \A i \in 1 .. Len(calls') : calls'[i].mode = "read"
        /\ Len(store') = Len(store)
        /\ \A k \in 1 .. Len(store) :
              store'[k] # store[k] =>
                /\ store[k].date = act'.target_date
                /\ store[k].user = act'.operator
                /\ _to_meal(store[k].meal) \notin decide(act'.target_date, rules)
                /\ store[k].status /\ ~store'[k].status
                /\ \E i \in 1 .. Len(calls') :
                      /\ calls'[i].op = "cancel_meal_record"
                      /\ calls'[i].mode = "direct_update"
                      /\ calls'[i].record_id = store[k].id
        /\ \A i \in 1 .. Len(calls') : calls'[i].op # "upsert_meal_record"]_vars

\* A toggle rejected for its cutoff after the preamble cancelled a
\* reserved row of a meal that is not allowed.
C11_Witness ==
    /\ act.action = "toggle_meal"
    /\ resp.content = MsgCutoff
    /\ \E i \in WriteCalls : calls[i].op = "cancel_meal_record"

C15_DisallowedCancelled ==
    (/\ act.action \in {"toggle_meal", "submit_reservation", "refresh_state"}
     /\ resp.content \notin EarlyErrors) =>
        /\ \A m \in Meals \ decide(act.target_date, rules) :
              ~EffectiveReserved(store, act.target_date, act.operator, m)
        /\ resp.card.has =>
              /\ resp.card.allowed \subseteq decide(act.target_date, rules)
              /\ resp.card.selected \subseteq decide(act.target_date, rules)

\* C16: from any table, cache and time, two card actions that differ only
\* in the payload fields allowed_meals, default_meals, selected_meals,
\* meal_prices and meal_record_ids make the same repository calls, leave
\* the same table and cache and return the same toast and card.
C16_PayloadIgnored ==
    \A req \in PayloadRequests :
        \E env \in {[order |-> <<LUNCH, DINNER>>, fails |-> FALSE]} :
            \E r \in {_process_action(store, cache, now, rules,
                                       WithPayload(req, Payload({}, {}, NoId)), env)} :
                \A payload \in Payloads :
                    _process_action(store, cache, now, rules,
                                    WithPayload(req, payload), env) = r

\* A toggle of the dinner sent from a card that shows every meal allowed
\* and selected, on a date whose rule allows the lunch only.
C16_Witness ==
    /\ act.action = "toggle_meal"
    /\ act.toggle_meal = DINNER
    /\ act.payload = Payload(Meals, Meals, StaleId)
    /\ decide(act.target_date, rules) = {LUNCH}
    /\ resp.content = MsgNotBookable
    /\ resp.card.allowed = {LUNCH}

\* The positions of the rules whose inclusive range contains the day.
Matching(d, rs) ==
    {i \in 1 .. Len(rs) : rs[i].start_date <= d /\ d <= rs[i].end_date}

\* C17: when no rule of the list contains the day, decide offers lunch and
\* dinner iff the day is a Monday to Friday, and nothing iff it is a
\* Saturday or Sunday.
C17_DefaultByWeekday ==
    (plan # NoPlan /\ Matching(plan.date, rules) = {}) =>
        /\ plan.meals = {LUNCH, DINNER} <=> weekday(plan.date) \in 0 .. 4
        /\ plan.meals = {} <=> weekday(plan.date) \in {5, 6}

\* A Saturday decided on a non-empty list of rules that all miss it.
C17_Witness ==
    /\ plan # NoPlan
    /\ weekday(plan.date) = 5
    /\ Len(rules) = MaxRules
    /\ Matching(plan.date, rules) = {}
    /\ plan.meals = {}

\* C18: when some rule contains the day, decide offers the meals of the
\* last matching rule in list order, restricted to lunch and dinner,
\* whatever the day of the week and the other matching rules; so two
\* matching rules with different meal sets give different results in
\* their two orders.
C18_LastMatchWins ==
    (plan # NoPlan /\ Matching(plan.date, rules) # {}) =>
        /\ \E k \in Matching(plan.date, rules) :
              /\ \A i \in Matching(plan.date, rules) : i <= k
              /\ plan.meals = rules[k].meals \cap {LUNCH, DINNER}
        /\ (/\ Len(rules) = 2
            /\ Matching(plan.date, rules) = {1, 2}
            /\ rules[1].meals # rules[2].meals) =>
              decide(plan.date, <<rules[2], rules[1]>>) # plan.meals

\* A Saturday on which a rule offering lunch is followed by a rule that
\* offers nothing.
C18_Witness ==
    /\ plan # NoPlan
    /\ weekday(plan.date) = 5
    /\ Len(rules) = 2
    /\ Matching(plan.date, rules) = {1, 2}
    /\ rules[1].meals = {LUNCH}
    /\ rules[2].meals = {}
    /\ plan.meals = {}

\* ------------------------------------------------------ daily job properties
\* The positions of the job's calls that are upserts for a user and meal.
JobUpserts(cs, open_id, meal) ==
    {k \in 1 .. Len(cs) :
        cs[k].op = "upsert_meal_record" /\ cs[k].user = open_id /\ cs[k].meal = meal}

C20_DefaultsOnlyWithoutRow ==
    [][act'.action = "send_daily_cards" =>
        /\ \A i \in EnabledUsers, m \in Meals :
              /\ JobUpserts(calls', DailyProfiles[i].open_id, m) # {} =>
                    /\ m \in DailyProfiles[i].meal_preferences \cap plan'.meals
                    /\ EffectiveId(store, act'.target_date, DailyProfiles[i].open_id, m) = NoId
                    /\ Cardinality(JobUpserts(calls', DailyProfiles[i].open_id, m)) = 1
              /\ (/\ act'.faults[i] \in {"none", "send"}
                  /\ m \in DailyProfiles[i].meal_preferences \cap plan'.meals
                  /\ EffectiveId(store, act'.target_date, DailyProfiles[i].open_id, m) = NoId) =>
                    /\ JobUpserts(calls', DailyProfiles[i].open_id, m) # {}
                    /\ EffectiveReserved(store', act'.target_date,
                                         DailyProfiles[i].open_id, m)
        /\ \A k \in 1 .. Len(calls') :
              /\ calls'[k].op # "cancel_meal_record"
              /\ calls'[k].op = "upsert_meal_record" => calls'[k].mode \in {"scan_create", "raised"}
        /\ Len(store') >= Len(store)
        /\ \A k \in 1 .. Len(store) : store'[k] = store[k]
        /\ (\A i \in EnabledUsers : act'.faults[i] = "none") =>
              \A order \in Orders :
                  \E again \in {send_daily_cards(store', cache', now', rules',
                                                  act'.target_date, order, act'.faults)} :
                      /\ again.store = store'
                      /\ \A k \in 1 .. Len(again.calls) :
                            again.calls[k].op # "upsert_meal_record"]_vars

\* A job that reserved the dinner default of a user whose lunch row was
\* cancelled, and left that lunch row cancelled.
C20_Witness ==
    /\ act.action = "send_daily_cards"
    /\ plan.meals = Meals
    /\ JobUpserts(calls, "ou_2", DINNER) # {}
    /\ JobUpserts(calls, "ou_2", LUNCH) = {}
    /\ EffectiveId(store, 1, "ou_2", LUNCH) # NoId
    /\ ~EffectiveReserved(store, 1, "ou_2", LUNCH)
    /\ EffectiveReserved(store, 1, "ou_2", DINNER)

\* C21: a daily job for a day on which decide offers no meal sends no card,
\* reads no user and leaves the table as it was; a job for a day with
\* meals makes calls, adds rows and sends cards only for enabled users.
C21_SkipAndEnabledOnly ==
    [][act'.action = "send_daily_cards" =>
        /\ plan'.meals = decide(act'.target_date, rules)
        /\ plan'.meals = {} =>
              /\ outbox' = <<>>
              /\ store' = store
              /\ \A k \in 1 .. Len(calls') : calls'[k].op = "list_schedule_rules"
        /\ \A i \in 1 .. Len(DailyProfiles) :
              ~DailyProfiles[i].enabled =>
                /\ \A k \in 1 .. Len(outbox') :
                      outbox'[k].receive_id # DailyProfiles[i].open_id
                /\ \A k \in 1 .. Len(calls') : calls'[k].user # DailyProfiles[i].open_id
                /\ \A k \in 1 .. Len(store') :
                      store'[k].user = DailyProfiles[i].open_id => k <= Len(store)]_vars

\* A job for the Saturday, skipped although a user has no row yet.
C21_Witness ==
    /\ act.action = "send_daily_cards"
    /\ act.target_date = 2
    /\ plan.meals = {}
    /\ outbox = <<>>
    /\ EffectiveId(store, 2, "ou_1", LUNCH) = NoId

\* C23: when the send to one stats receiver fails, every other receiver of
\* the table still receives the count message.
C23_StatsReachEveryOther ==
    [][act'.action = "send_stats" =>
        \A i \in 1 .. Len(act'.receivers) :
            act'.receivers[i] \notin act'.refused =>
                \E k \in 1 .. Len(outbox') :
                    /\ outbox'[k].receive_id = act'.receivers[i]
                    /\ outbox'[k].text.count
                         = count_meal_records(store, act'.target_date, act'.toggle_meal)]_vars

\* C25 as stated: whenever the archive runs for a date, its interval is
\* [date - 1 month + 1 day, date].
C25_Original ==
    (resp.level = "preview" /\ resp.should_run) =>
        /\ resp.start_date = NextDay(MinusOneMonth(act.target_date))
        /\ resp.end_date = act.target_date

\* C25: whenever the archive runs for a date whose month has the configured
\* day, its interval is [date - 1 month + 1 day, date].
C25_MonthBackWhenDayExists ==
    (resp.level = "preview" /\ resp.should_run
        /\ act.day_of_month <= monthrange(act.target_date.year, act.target_date.month)) =>
        /\ resp.start_date = NextDay(MinusOneMonth(act.target_date))
        /\ resp.end_date = act.target_date

\* The archive of 2026-02-15 under day 15: from 2026-01-16 to 2026-02-15.
C25_Witness ==
    /\ resp.level = "preview" /\ resp.should_run
    /\ act.day_of_month = 15
    /\ act.target_date = Date(2026, 2, 15)
    /\ resp.start_date = Date(2026, 1, 16)
    /\ resp.end_date = Date(2026, 2, 15)

\* C26: under day 31 the archive of 2026-02-28 runs over [2026-02-01,
\* 2026-02-28]; when the month lacks the configured day the interval starts
\* the day after the previous month's settlement date and ends on the date;
\* and the interval of the following month's settlement date starts the day
\* after this one ends, each interval being non-empty.
C26_FallbackInterval ==
    (resp.level = "preview" /\ resp.should_run) =>
        LET d == act.target_date
            k == act.day_of_month
            pm == PreviousMonth(d.year, d.month)
            fm == FollowingMonth(d.year, d.month)
            following == preview_fee_archive(SettlementDate(fm.year, fm.month, k), k)
        IN  /\ (k = 31 /\ d = Date(2026, 2, 28)) =>
                  resp.start_date = Date(2026, 2, 1) /\ resp.end_date = Date(2026, 2, 28)
            /\ k > monthrange(d.year, d.month) =>
                  /\ \E p \in 1 .. 31 :
                        /\ p = (IF k < monthrange(pm.year, pm.month)
                                 THEN k ELSE monthrange(pm.year, pm.month))
                        /\ resp.start_date = NextDay(Date(pm.year, pm.month, p))
                  /\ resp.end_date = d
            /\ following.should_run
            /\ following.start_date = NextDay(resp.end_date)
            /\ DateLeq(resp.start_date, resp.end_date)
            /\ DateLeq(following.start_date, following.end_date)

\* The archive of 2026-02-28 under day 31, which February lacks.
C26_Witness ==
    /\ resp.level = "preview" /\ resp.should_run
    /\ act.day_of_month = 31
    /\ act.target_date = Date(2026, 2, 28)
    /\ resp.start_date = Date(2026, 2, 1)

\* The calls of a kind among the recorded repository calls.
CallsOf(op) == {k \in 1 .. Len(calls) : calls[k].op = op}

\* C24: archive_meal_fees reads the summaries, writes archive records and
\* sends messages exactly when the day of its date is the smaller of the
\* configured day and the last day of the date's month; on any other date
\* it reads nothing, writes nothing and sends nothing.
C24_RunsOnSettlementDayOnly ==
    act.action = "archive_meal_fees" =>
        LET last_day == monthrange(act.target_date.year, act.target_date.month)
            due == act.target_date.day
                     = (IF act.day_of_month < last_day THEN act.day_of_month ELSE last_day)
        IN  /\ due => /\ resp.level = "archived"
                      /\ CallsOf("list_meal_fee_summaries") # {}
                      /\ CallsOf("upsert_meal_fee_archive_record") # {}
                      /\ outbox # <<>>
            /\ ~due => /\ resp.level = "skipped"
                       /\ calls = <<>>
                       /\ outbox = <<>>

\* The archive of 2026-02-28 under day 31 has run, and a reserved row of
\* the table is in its interval.
C24_Witness ==
    /\ act.action = "archive_meal_fees"
    /\ act.target_date = Date(2026, 2, 28) /\ act.day_of_month = 31
    /\ resp.level = "archived" /\ resp.total_fee > 0
    /\ outbox # <<>>

\* C29: list_cron_trigger_events raises exactly when the window ends before
\* it starts; otherwise it returns, for each day and job whose trigger
\* instant lies within [start_at, end_at], bounds included, exactly one
\* event, no event for any other day and job, each event at its job's time,
\* and the events in strictly ascending order of (trigger time, job id).
C29_EventsOfWindow ==
    resp.level = "listed" =>
        LET job_specs == build_cron_job_specs(act.schedule)
            events == resp.events
            Within(t) == DateTimeLeq(act.start_at, t) /\ DateTimeLeq(t, act.end_at)
        IN  /\ resp.raised <=> DateTimeLess(act.end_at, act.start_at)
            /\ ~resp.raised =>
                  /\ \A d \in 0 .. MaxCronDay + 1, j \in 1 .. Len(job_specs) :
                        Cardinality({k \in 1 .. Len(events) :
                                        /\ events[k].trigger_at.date = d
                                        /\ events[k].job_id = job_specs[j].job_id})
                          = (IF Within(DateTime(d, job_specs[j].time)) THEN 1 ELSE 0)
                  /\ \A k \in 1 .. Len(events) :
                        \E j \in 1 .. Len(job_specs) :
                            /\ events[k].job_id = job_specs[j].job_id
                            /\ events[k].trigger_at.time = job_specs[j].time
                            /\ events[k].trigger_at.date \in act.start_at.date .. act.end_at.date
                  /\ \A k \in 1 .. Len(events) - 1 :
                        EventKeyLess(events[k], events[k + 1])

\* A window of two days that ends at the very time two jobs trigger: both
\* events of that instant are listed, by job id.
C29_Witness ==
    /\ resp.level = "listed" /\ ~resp.raised
    /\ act.start_at.date < act.end_at.date
    /\ \E k \in 1 .. Len(resp.events) - 1 :
          /\ k + 1 = Len(resp.events)
          /\ resp.events[k].trigger_at = act.end_at
          /\ resp.events[k + 1].trigger_at = act.end_at
          /\ resp.events[k].job_id = "daily_lunch_stats"
          /\ resp.events[k + 1].job_id = "daily_send_cards"

\* C30: handle_card_action always answers with a toast; a cutoff violation
\* is answered with an error toast carrying its own message, and every
\* other exception with an error toast carrying the fixed text.
C30_OpaqueUnlessUserInput ==
    resp.level # "none" =>
        /\ resp.raised = "_apply_selection" =>
              resp.level = "error" /\ resp.content = MsgCutoff
        /\ resp.raised \in {"list_records", "_to_date"} =>
              resp.level = "error" /\ resp.content = MsgUpdateFailed

\* C31: a lookup that is not forced reads the record store exactly when no
\* rules are cached or the time is at or after the expiry, and otherwise
\* returns the cached rules and leaves the cache alone; every lookup that
\* reads the store, forced or not, caches what it read with the expiry
\* now + TTL.
C31_CacheTtl ==
    [][act'.action = "_list_schedule_rules" =>
        LET fetched == calls' # <<>>
        IN  /\ ~act'.force_refresh => (fetched <=> (~cache.set \/ now >= cache.expires_at))
            /\ act'.force_refresh => fetched
            /\ ~fetched => resp'.rules = cache.rules /\ cache' = cache
            /\ fetched =>
                  /\ resp'.rules = list_schedule_rules(rules)
                  /\ cache'.set /\ cache'.rules = list_schedule_rules(rules)
                  /\ cache'.expires_at = now + CacheTtl]_vars

\* A lookup that was not forced has read the store after the clock moved,
\* and the cache holds the table's rule with the expiry now + TTL.
C31_Witness ==
    /\ act.action = "_list_schedule_rules" /\ ~act.force_refresh
    /\ calls # <<>>
    /\ cache.expires_at = now + CacheTtl
    /\ now > StartNow
    /\ cache.rules = list_schedule_rules(rules) /\ rules # <<>>

\* C32: every run of send_daily_cards reads the rules from the record store,
\* whatever the cache holds, decides the date on the rules just read, and
\* leaves them in the cache with the expiry now + TTL.
C32_DailyJobRefreshes ==
    [][act'.action = "send_daily_cards" =>
        /\ calls' # <<>> /\ calls'[1].op = "list_schedule_rules"
        /\ plan' = DailyMealPlan(act'.target_date,
                                 decide(act'.target_date, list_schedule_rules(rules)))
        /\ cache' = [set |-> TRUE, rules |-> list_schedule_rules(rules),
                     expires_at |-> now + CacheTtl]]_vars

\* The daily job has run for the Saturday on the rule that offers its dinner
\* and has sent cards.
C32_Witness ==
    /\ act.action = "send_daily_cards" /\ act.target_date = 2
    /\ plan.meals = {DINNER}
    /\ outbox # <<>>
    /\ cache.set /\ cache.rules = rules /\ cache.expires_at = now + CacheTtl

\* C34: a preview creates and updates no row, sends no message and leaves
\* the rules cache, rules and expiry, as it was.
C34_PreviewLeavesNoTrace ==
    [][act'.action \in {"preview_daily_cards", "preview_stats"} =>
        /\ store' = store
        /\ outbox' = <<>>
        /\ \A i \in 1 .. Len(calls') : calls'[i].mode = "read"
        /\ cache' = cache]_vars

\* C35: preview_daily_cards answers will_execute exactly when
\* send_daily_cards, run in the same state, decides a date with meals and
\* has an enabled user to send to.
C35_PreviewAgreesWithJob ==
    [][act'.action = "preview_daily_cards" =>
        (resp'.will_execute <=>
            /\ send_daily_cards(store, cache, now, rules, act'.target_date, <<LUNCH, DINNER>>,
                                [i \in 1 .. Len(DailyProfiles) |-> "none"]).plan.meals # {}
            /\ EnabledUsers # {})]_vars

\* The threads between the fetch and the second assignment of a refresh.
Refreshing == {th \in Threads : act.threads[th].pc \in {"store_rules", "store_expiry"}}

\* C33: with lookups on several threads a refresh is exclusive, the rules of
\* an older fetch never replace those of a newer one, and once no refresh
\* is under way the cached rules and the expiry come from the same refresh.
C33_RefreshIsAtomic ==
    [][/\ Cardinality(Refreshing') <= 1
       /\ cache'.rules_of >= cache.rules_of
       /\ Refreshing' = {} => cache'.rules_of = cache'.expiry_of]_vars

\* The operations a user triggers: the card actions and the text message.
UserTriggered == {"toggle_meal", "submit_reservation", "refresh_state",
                  "send_card_to_user_today"}

\* The cutoff of today's meal has passed.
CutoffPassed(t, meal) == ~_is_editable(t, TodayOf(t), meal)

\* C36: once the cutoff of a meal of today has passed, no operation a user
\* triggers (a card action, or the text message that sends today's card)
\* creates a row of (user, today, meal) or changes its effective status.
C36_NothingAfterCutoff ==
    [][act'.action \in UserTriggered =>
        \A meal \in Meals :
            CutoffPassed(now, meal) =>
                /\ Cardinality({i \in KeyRowsOf(store', TodayOf(now), act'.operator) :
                                    store'[i].meal = meal})
                   = Cardinality({i \in KeyRowsOf(store, TodayOf(now), act'.operator) :
                                    store[i].meal = meal})
                /\ EffectiveReserved(store', TodayOf(now), act'.operator, meal)
                   = EffectiveReserved(store, TodayOf(now), act'.operator, meal)]_vars

C39_ErrorToastMeansNoChange ==
    [][(act'.action = "submit_reservation" /\ resp'.level = "error") =>
        \A meal \in Meals :
            EffectiveReserved(store', act'.target_date, act'.operator, meal)
            = EffectiveReserved(store, act'.target_date, act'.operator, meal)]_vars

\* The card actions that reach the handler's writes.
CardActions == {"toggle_meal", "submit_reservation", "refresh_state"}

\* C40: every row a card action of user U creates or updates is a row of
\* U and of the action's target date, and every record id a direct update
\* is issued for is the id of a row of U and that date as the table held
\* it when the action read it, whatever ids the card payload carries.
C40_WritesStayWithOwner ==
    [][act'.action \in CardActions =>
        /\ \A i \in 1 .. Len(store') :
              (i > Len(store) \/ store'[i] # store[i])
                  => store'[i].user = act'.operator /\ store'[i].date = act'.target_date
        /\ \A i \in 1 .. Len(store) : i <= Len(store') /\ store'[i].id = store[i].id
        /\ \A k \in 1 .. Len(calls') :
              calls'[k].mode = "direct_update"
                  => calls'[k].record_id
                        \in {store[i].id :
                                i \in KeyRowsOf(store, act'.target_date, act'.operator)}]_vars

\* The owner's toggle of the lunch, sent from a card whose payload names
\* the other user's row for the lunch, has updated the owner's own row.
C40_Witness ==
    /\ act.action = "toggle_meal" /\ act.toggle_meal = LUNCH
    /\ Len(store) = 2 /\ store[1].user = "ou_2" /\ store[2].user = act.operator
    /\ act.payload.meal_record_ids[LUNCH] = store[1].id
    /\ resp.content = MsgUpdated
    /\ \E k \in 1 .. Len(calls) :
          calls[k].mode = "direct_update" /\ calls[k].record_id = store[2].id
    /\ store[1].status /\ ~store[2].status

\* ---------------------------------------------------- repository properties
\* The rows of the table that carry the key (date, user, meal).
KeyRows(s, d, u, m) ==
    {i \in 1 .. Len(s) : s[i].date = d /\ s[i].user = u /\ _to_meal(s[i].meal) = m}

\* list_user_meal_rows reports the meal exactly once, with the given status.
ListedOnce(s, d, u, m, st) ==
    LET rows == list_user_meal_rows(s, d, u)
    IN  /\ Cardinality({i \in 1 .. Len(rows) : rows[i].meal_type = m}) = 1
        /\ \A i \in 1 .. Len(rows) : rows[i].meal_type = m => rows[i].reservation_status = st

\* The row of the table that carries a record id.
RowOf(s, record_id) == s[CHOOSE i \in 1 .. Len(s) : s[i].id = record_id]

\* C4: list_user_meal_rows returns at most one row per meal, and each row
\* it returns is the last row in store order of its (date, user, meal).
C4_ListLastWins ==
    last.op = "list" =>
        /\ \A i, j \in 1 .. Len(last.rows) :
              i # j => last.rows[i].meal_type # last.rows[j].meal_type
        /\ \A i \in 1 .. Len(last.rows) :
              \E k \in 1 .. Len(store) :
                /\ store[k].id = last.rows[i].record_id
                /\ store[k].date = last.date
                /\ store[k].user = last.user
                /\ _to_meal(store[k].meal) = last.rows[i].meal_type
                /\ store[k].status = last.rows[i].reservation_status
                /\ \A k2 \in (k + 1) .. Len(store) :
                      k2 \notin KeyRows(store, last.date, last.user, last.rows[i].meal_type)

\* A listing made while the key has an earlier duplicate of another status.
C4_Witness ==
    /\ last.op = "list"
    /\ Len(last.rows) >= 1
    /\ \E k1, k2 \in 1 .. Len(store) :
          /\ k1 < k2
          /\ store[k1].date = last.date /\ store[k2].date = last.date
          /\ store[k1].user = last.user /\ store[k2].user = last.user
          /\ store[k1].meal = store[k2].meal
          /\ store[k1].status # store[k2].status

\* C5 (as claimed): a second identical upsert, whatever its hint and mode,
\* creates no further row and leaves the meal listed once, reserved.
C5_Original ==
    (last.op = "upsert" /\ last.again) =>
        /\ ~last.grew
        /\ ListedOnce(store, last.date, last.user, last.meal, TRUE)

\* C5 (amended): after two identical upserts whose hints are absent, stale
\* or the effective row's id, the meal is listed once and reserved; the
\* second call adds a row only in prefer_direct mode with an absent or
\* stale hint.
C5_UpsertTwice ==
    (last.op = "upsert" /\ last.again /\ last.hintOk /\ last.prevHintOk) =>
        /\ ListedOnce(store, last.date, last.user, last.meal, TRUE)
        /\ last.grew => (last.direct /\ last.hint \in {NoId, StaleId})

\* A second identical upsert without prefer_direct, and one that grew the table.
C5_Witness ==
    /\ last.op = "upsert" /\ last.again /\ last.hintOk /\ last.prevHintOk
    /\ ~last.direct /\ last.hint = NoId
    /\ Cardinality(KeyRows(store, last.date, last.user, last.meal)) = 1

\* C6: upsert returning r, then cancel with record_id = r, leaves the meal
\* listed once with status false and the row still carrying the upsert's price.
C6_UpsertCancelRoundTrip ==
    (last.op = "cancel" /\ last.again) =>
        /\ ListedOnce(store, last.date, last.user, last.meal, FALSE)
        /\ RowOf(store, last.hint).price = last.price

\* C7: a cancel writes nothing but status = false: every row keeps its
\* date, user, meal type and price.
C7_CancelWritesOnlyStatus ==
    [][CancelStep =>
        \A i \in 1 .. Len(store) :
            /\ store'[i].date = store[i].date
            /\ store'[i].user = store[i].user
            /\ store'[i].meal = store[i].meal
            /\ store'[i].price = store[i].price]_vars

\* C8 (as claimed): in prefer_direct mode a row is created only when the
\* key has no row yet.
C8_Original ==
    (last.op = "upsert" /\ last.direct /\ last.grew) =>
        Cardinality(KeyRows(store, last.date, last.user, last.meal)) = 1

\* C8 (amended): in prefer_direct mode an absent or failing hint creates a
\* new row without a scan, which is then the key's effective row; only
\* without prefer_direct does an absent or failing hint lead to a scan,
\* which creates a row only when the key has none.
C8_DirectCreates ==
    last.op = "upsert" =>
        /\ (last.direct /\ last.hint \in {NoId, StaleId}) =>
              /\ last.grew
              /\ last.ret = store[Len(store)].id
              /\ EffectiveId(store, last.date, last.user, last.meal) = last.ret
              /\ store[Len(store)].status
        /\ (~last.direct /\ last.hint \in {NoId, StaleId}) =>
              /\ EffectiveId(store, last.date, last.user, last.meal) = last.ret
              /\ RowOf(store, last.ret).status
              /\ last.grew => Cardinality(KeyRows(store, last.date, last.user, last.meal)) = 1

\* A prefer_direct upsert with a stale hint that created a duplicate row.
C8_Witness ==
    /\ last.op = "upsert" /\ last.direct /\ last.hint = StaleId /\ last.grew
    /\ Cardinality(KeyRows(store, last.date, last.user, last.meal)) = 2

\* C9 (as claimed): a cancel always ends with the key's effective row not
\* reserved, and returns null only when the key has no row.
C9_Original ==
    last.op = "cancel" =>
        /\ last.wasReserved => ~EffectiveReserved(store, last.date, last.user, last.meal)
        /\ last.ret = NoId => KeyRows(store, last.date, last.user, last.meal) = {}

\* C9 (amended): with prefer_direct only the hinted record is written, and
\* an absent or failing hint returns null with nothing written; without
\* prefer_direct null is returned only when the key has no row; a non-null
\* result names a record that now has status false; the effective row ends
\* not reserved when the hint is its id, or when the call scans without a hint.
C9_CancelModes ==
    last.op = "cancel" =>
        /\ (last.direct /\ last.hint \in {NoId, StaleId}) => (last.ret = NoId /\ ~last.wrote)
        /\ last.ret # NoId => ~RowOf(store, last.ret).status
        /\ (~last.direct /\ last.ret = NoId /\ last.mode # "raised") =>
              (KeyRows(store, last.date, last.user, last.meal) = {} /\ ~last.wrote)
        /\ (last.wasReserved /\ (last.hintIsEff \/ (~last.direct /\ last.hint = NoId))) =>
              ~EffectiveReserved(store, last.date, last.user, last.meal)

\* A prefer_direct cancel without hint that left a reserved row reserved.
C9_Witness ==
    /\ last.op = "cancel" /\ last.direct /\ last.hint = NoId /\ last.wasReserved
    /\ EffectiveReserved(store, last.date, last.user, last.meal)

\* C22: count_meal_records returns the number of users whose last row in
\* store order for the date and meal is reserved; a reserved row that a
\* later row of the same user, date and meal supersedes is not counted.
C22_CountEffective ==
    last.op = "count" =>
        last.ret = Cardinality({u \in Users :
                        \E k \in KeyRows(store, last.date, u, last.meal) :
                            /\ store[k].status
                            /\ \A k2 \in KeyRows(store, last.date, u, last.meal) : k2 <= k})

\* A count of zero while an earlier row of the meal is reserved and a later
\* row of the same user has cancelled it.
C22_Witness ==
    /\ last.op = "count"
    /\ last.ret = 0
    /\ \E k1, k2 \in KeyRows(store, last.date, "ou_1", last.meal) :
          k1 < k2 /\ store[k1].status /\ ~store[k2].status

\* What the key (date, user, meal) contributes to a fee summary: the price
\* of its last row when that row is reserved.
FeeOf(s, d, u, m) ==
    IF \E k \in KeyRows(s, d, u, m) :
          s[k].status /\ \A k2 \in KeyRows(s, d, u, m) : k2 <= k
    THEN s[CHOOSE k \in KeyRows(s, d, u, m) : \A k2 \in KeyRows(s, d, u, m) : k2 <= k].price
    ELSE 0

\* The keys of a user and meal that count in the interval.
CountedDays(s, start_date, end_date, u, m) ==
    {d \in start_date .. end_date :
        \E k \in KeyRows(s, d, u, m) :
            s[k].status /\ \A k2 \in KeyRows(s, d, u, m) : k2 <= k}

RECURSIVE FeeTotal(_, _, _, _)
FeeTotal(s, d, end_date, u) ==
    IF d > end_date THEN 0
    ELSE FeeOf(s, d, u, LUNCH) + FeeOf(s, d, u, DINNER) + FeeTotal(s, d + 1, end_date, u)

\* The fees of a set of users over an interval, added up.
RECURSIVE FeeSum(_, _, _, _)
FeeSum(s, start_date, end_date, us) ==
    IF us = {} THEN 0
    ELSE LET u == CHOOSE x \in us : TRUE
         IN  FeeTotal(s, start_date, end_date, u) + FeeSum(s, start_date, end_date, us \ {u})

\* C28: list_meal_fee_summaries returns one summary for each user with a
\* counted row, and in it the sum of the prices of the user's last rows
\* per (date, user, meal) that are reserved and dated within [start, end],
\* with the numbers of the lunches and of the dinners among exactly those
\* rows; other rows contribute nothing.
C28_SummariesOverEffectiveRows ==
    last.op = "list_meal_fee_summaries" =>
        /\ \A i, j \in 1 .. Len(last.ret) :
              i # j => last.ret[i].open_id # last.ret[j].open_id
        /\ \A i \in 1 .. Len(last.ret) :
              LET x == last.ret[i]
              IN  /\ x.total_fee = FeeTotal(store, last.start_date, last.end_date, x.open_id)
                  /\ x.lunch_count = Cardinality(CountedDays(store, last.start_date,
                                                              last.end_date, x.open_id, LUNCH))
                  /\ x.dinner_count = Cardinality(CountedDays(store, last.start_date,
                                                               last.end_date, x.open_id, DINNER))
        /\ \A u \in Users :
              (\E m \in Meals :
                  CountedDays(store, last.start_date, last.end_date, u, m) # {}) =>
                  \E i \in 1 .. Len(last.ret) : last.ret[i].open_id = u

\* A summary over day 1 alone while ou_1 has two reserved lunches of day 1
\* at different prices: only the later one is summed.
C28_Witness ==
    /\ last.op = "list_meal_fee_summaries"
    /\ last.start_date = 1 /\ last.end_date = 1
    /\ \E k1, k2 \in KeyRows(store, 1, "ou_1", LUNCH) :
          /\ k1 < k2 /\ store[k1].status /\ store[k2].status
          /\ store[k1].price # store[k2].price
          /\ Len(last.ret) = 1 /\ last.ret[1].total_fee = store[k2].price
    /\ last.ret[1].lunch_count = 1 /\ last.ret[1].dinner_count = 0

\* C27: a run of archive_meal_fees upserts exactly one archive record for
\* each user of the roster and each user with aggregated fees, and for no
\* one else, with the user's fee over the interval (0 for a roster user
\* without a reservation in it); it sends each of them one message with
\* that fee and then, to each stats receiver, one message with the total,
\* which is the sum of those fees.
C27_OneRecordPerUserThenTotal ==
    (act.action = "archive_meal_fees" /\ resp.level = "archived") =>
        LET a == DayNumber(resp.start_date)
            b == DayNumber(resp.end_date)
            roster == {list_user_profiles[k].open_id : k \in 1 .. Len(list_user_profiles)}
            aggregated == {u \in Users : \E m \in Meals : CountedDays(store, a, b, u, m) # {}}
            users == roster \cup aggregated
            upserts == CallsOf("upsert_meal_fee_archive_record")
            fees == {k \in 1 .. Len(outbox) : outbox[k].text.kind = "fee"}
            totals == {k \in 1 .. Len(outbox) : outbox[k].text.kind = "total"}
        IN  /\ \A k \in upserts :
                  /\ calls[k].user \in users
                  /\ calls[k].fee = FeeTotal(store, a, b, calls[k].user)
                  /\ calls[k].start_date = resp.start_date
                  /\ calls[k].end_date = resp.end_date
            /\ \A u \in users : Cardinality({k \in upserts : calls[k].user = u}) = 1
            /\ \A u \in roster \ aggregated : \A k \in upserts : calls[k].user = u => calls[k].fee = 0
            /\ \A k \in fees :
                  /\ outbox[k].receive_id \in users
                  /\ outbox[k].text.fee = FeeTotal(store, a, b, outbox[k].receive_id)
            /\ \A u \in users : Cardinality({k \in fees : outbox[k].receive_id = u}) = 1
            /\ \A k \in totals :
                  /\ \E i \in 1 .. Len(act.receivers) : act.receivers[i] = outbox[k].receive_id
                  /\ outbox[k].text.fee = FeeSum(store, a, b, users)
                  /\ \A k2 \in fees : k2 < k
            /\ \A i \in 1 .. Len(act.receivers) :
                  Cardinality({k \in totals : outbox[k].receive_id = act.receivers[i]}) = 1
            /\ resp.user_count = Cardinality(users)
            /\ resp.total_fee = FeeSum(store, a, b, users)

\* The archive of 2026-02-15 has run while ou_2, who is not on the roster,
\* has a reserved meal in the interval and ou_1, who is, has none; two
\* receivers got the total.
C27_Witness ==
    /\ act.action = "archive_meal_fees" /\ resp.level = "archived"
    /\ act.target_date = Date(2026, 2, 15)
    /\ act.receivers = <<"ou_2", "ou_1">>
    /\ resp.user_count = 2 /\ resp.total_fee > 0
    /\ \A k \in 1 .. Len(store) : store[k].user = "ou_2"
    /\ \E k \in CallsOf("upsert_meal_fee_archive_record") :
          calls[k].user = "ou_1" /\ calls[k].fee = 0

\* C38: when upsert_meal_record(date, user, meal, price, record_id = h)
\* returns r, the row r carries that date, user and meal with status true,
\* and no row of another user or date was modified, also when h is the id
\* of a row of another user or date.
C38_UpsertKeepsToItsKey ==
    [][last'.op = "upsert" =>
        /\ last'.ret \in RecordIds(store')
        /\ RowOf(store', last'.ret).date = last'.date
        /\ RowOf(store', last'.ret).user = last'.user
        /\ _to_meal(RowOf(store', last'.ret).meal) = last'.meal
        /\ RowOf(store', last'.ret).status
        /\ \A i \in 1 .. Len(store) :
              (store[i].date # last'.date \/ store[i].user # last'.user)
                  => store'[i] = store[i]]_vars

====
